---------------------------- MODULE Spec2Model ----------------------------
(***************************************************************************)
(* Conversation state machine of the Telepharma WhatsApp chatbot.          *)
(*                                                                         *)
(* Two revisions of the program are modelled side by side:                 *)
(*   "fn"  the function-style server, src/unnamed/part_001 lines 1369-2729 *)
(*   "cm"  the ChatbotManager class,  src/unnamed/part_000                 *)
(* The variable rev says which of them a behaviour runs; it never changes. *)
(*                                                                         *)
(* A handler works on an in-memory copy of the contact document (loaded by *)
(* User.findOne) and writes it back with user.save().  The handler code is *)
(* written here as operators over a context record                         *)
(*    [u    : the in-memory document,                                      *)
(*     ords : the Order collection,                                        *)
(*     out  : the outbound messages emitted so far, in order,              *)
(*     whole: whether conversationState was replaced as a whole,           *)
(*     n    : the value Math.random() contributes to the order number,     *)
(*     t    : the value of new Date() / Date.now(),                        *)
(*     cid  : the contact the event belongs to,                            *)
(*     fail : which call of axios.post of this event fails (0: none),      *)
(*     calls: the calls of axios.post made so far,                         *)
(*     down : the gateway is down: every call after call fail fails too,  *)
(*     thrown: an exception is propagating; no statement executes until    *)
(*            a catch clears it]                                           *)
(***************************************************************************)
EXTENDS Integers, Sequences, FiniteSets, TLC

VARIABLES
    rev,      \* the revision of the program that is running
    now,      \* the clock, in units of 15 minutes
    users,    \* the User collection: contact -> document, or NoUser
    orders,   \* the Order collection, in order of creation
    last,     \* history: the event processed last (its contact, input, output)
    inflight  \* webhook handlers between their findOne and their save

vars == <<rev, now, users, orders, last, inflight>>

(***************************************************************************)
(* Bounds of the model.                                                    *)
(***************************************************************************)
MaxTime == 5          \* the clock stops here
MaxOrders == 1        \* Order documents created in one behaviour
MaxRandom == 2        \* distinct values of the random part of an order number
MaxConcOrders == 2    \* Order documents created in one behaviour with concurrent handlers
MaxOverlap == 1       \* events saved while another handler of the contact is in flight
MaxFailAt == 1        \* the calls of axios.post of one event that may fail: the first ones
LastEventTime == 0    \* the clock reading after which no inbound event arrives
MaxPosts == 3         \* the failed calls of axios.post for one outbound text that are followed

(***************************************************************************)
(* Program constants (15-minute units).                                    *)
(***************************************************************************)
SessionTimeout == 2   \* 30 * 60 * 1000 ms
StaleAfter == 4       \* 60 * 60 * 1000 ms
MaxDepth == 10        \* depth guard of handleConversationRecursively
LastRegStep == 7      \* registrationSteps.length - 1

Contacts == {"c1", "c2"}
Handlers == {"h1", "h2"}
NoUser == [none |-> TRUE]
Null == "null"
Undefined == "undefined"
BACK == "00"
ABORT == "0"

(***************************************************************************)
(* JavaScript values.                                                      *)
(***************************************************************************)
EmptyMap == [k \in {} |-> Null]

Get(d, k) == IF k \in DOMAIN d THEN d[k] ELSE Undefined

MapSet(d, k, v) == [x \in (DOMAIN d) \cup {k} |-> IF x = k THEN v ELSE d[x]]

MapDelete(d, k) == [x \in (DOMAIN d) \ {k} |-> d[x]]

Truthy(v) == v \notin {Undefined, Null, ""}

\* parseInt on the inputs of the model: NaN is -1000
NaN == 0 - 1000
parseInt(m) ==
    CASE m = "0" -> 0
      [] m = "00" -> 0
      [] m = "1" -> 1
      [] m = "2" -> 2
      [] m = "3" -> 3
      [] m = "4" -> 4
      [] m = "5" -> 5
      [] m = "6" -> 6
      [] m = "7" -> 7
      [] m = "9" -> 9
      [] m = "1x" -> 1
      [] m \in {"15/06/1990", "15061990", "1506199"} -> 15
      [] m = "31/02/2020" -> 31
      [] m \in {"01/01/2999", "01/01/1800"} -> 1
      [] m = "02/01/2024" -> 2
      [] OTHER -> NaN

\* currentStep is declared String in the schema: mongoose casts the numbers the
\* registration code assigns (0, currentStep++, currentStep--) to strings, and
\* the comparisons and the array index convert them back.
StepString(i) == <<"0", "1", "2", "3", "4", "5", "6", "7">>[i + 1]
StepNumber(s) == IF s = Null THEN 0 ELSE parseInt(s)


(***************************************************************************)
(* Texts as characters.  The date validators look at the characters of     *)
(* the message: a text is a sequence of one-character strings.  Chars      *)
(* gives the characters of the date-like texts the state machine sends; a  *)
(* text that is not listed has no digits or slashes in the places the      *)
(* validators look at and stands as one letter.                            *)
(***************************************************************************)
Digits == <<"0", "1", "2", "3", "4", "5", "6", "7", "8", "9">>

DigitValue(ch) == (CHOOSE k \in 1..10 : Digits[k] = ch) - 1

IsDigits(s) == \A i \in 1..Len(s) : \E k \in 1..10 : Digits[k] = s[i]

\* Number(s) of a string of digits
RECURSIVE Number(_)
Number(s) ==
    IF s = <<>> THEN 0
    ELSE 10 * Number(SubSeq(s, 1, Len(s) - 1)) + DigitValue(s[Len(s)])

Chars(m) ==
    CASE m = "15/06/1990" -> <<"1", "5", "/", "0", "6", "/", "1", "9", "9", "0">>
      [] m = "31/02/2020" -> <<"3", "1", "/", "0", "2", "/", "2", "0", "2", "0">>
      [] m = "01/01/2999" -> <<"0", "1", "/", "0", "1", "/", "2", "9", "9", "9">>
      [] m = "01/01/1800" -> <<"0", "1", "/", "0", "1", "/", "1", "8", "0", "0">>
      [] m = "02/01/2024" -> <<"0", "2", "/", "0", "1", "/", "2", "0", "2", "4">>
      [] m = "15061990" -> <<"1", "5", "0", "6", "1", "9", "9", "0">>
      [] m = "1506199" -> <<"1", "5", "0", "6", "1", "9", "9">>
      [] OTHER -> <<"x">>

(***************************************************************************)
(* Dates.  new Date(year, month - 1, day) never fails on digits: a day or  *)
(* month out of range rolls over into the following month or year.         *)
(***************************************************************************)
TicksPerDay == 96

\* \d{2}\/\d{2}\/\d{4}, anchored
SlashForm(s) ==
    /\ Len(s) = 10
    /\ s[3] = "/"
    /\ s[6] = "/"
    /\ IsDigits(<<s[1], s[2], s[4], s[5], s[7], s[8], s[9], s[10]>>)

\* which alternative of the two regular expressions the text matches, and
\* day, month, year as split("/") or substring / substr cut them
ParseDate(s) ==
    IF SlashForm(s)
    THEN [form |-> "slash", d |-> Number(SubSeq(s, 1, 2)), mo |-> Number(SubSeq(s, 4, 5)),
          y |-> Number(SubSeq(s, 7, 10))]
    ELSE IF Len(s) \in {7, 8} /\ IsDigits(s)
    THEN [form |-> IF Len(s) = 8 THEN "digits8" ELSE "digits7",
          d |-> Number(SubSeq(s, 1, 2)), mo |-> Number(SubSeq(s, 3, 4)),
          y |-> Number(SubSeq(s, 5, Len(s)))]
    ELSE [form |-> "none", d |-> 0, mo |-> 0, y |-> 0]

DateParts(m) == ParseDate(Chars(m))

\* days since 1970-01-01 of the civil date (y, mo, d), mo in 1..12, any d
DaysFromCivil(y, mo, d) ==
    LET y2 == IF mo <= 2 THEN y - 1 ELSE y
        era == y2 \div 400
        yoe == y2 - era * 400
        mp == (mo + 9) % 12
        doy == (153 * mp + 2) \div 5 + d - 1
        doe == yoe * 365 + yoe \div 4 - yoe \div 100 + doy
    IN  era * 146097 + doe - 719468

\* new Date(year, month - 1, day): years 0..99 mean 1900..1999; months roll over
JsDate(y, mo, d) ==
    LET yy == IF y >= 0 /\ y <= 99 THEN 1900 + y ELSE y
        y3 == yy + ((mo - 1) \div 12)
        m3 == ((mo - 1) % 12) + 1
    IN  [days |-> DaysFromCivil(y3, m3, d)]

\* Date.getFullYear()
getFullYear(date) ==
    LET z == date.days + 719468
        era == z \div 146097
        doe == z - era * 146097
        yoe == (doe - doe \div 1460 + doe \div 36524 - doe \div 146096) \div 365
        doy == doe - (365 * yoe + yoe \div 4 - yoe \div 100)
        mp == (5 * doy + 2) \div 153
    IN  yoe + era * 400 + (IF mp >= 10 THEN 1 ELSE 0)

\* The clock starts at 00:00 on this day.
EpochDay == DaysFromCivil(2024, 1, 1)

\* date < new Date(), the clock reading t
DateBefore(date, t) == (date.days - EpochDay) * TicksPerDay < t

(***************************************************************************)
(* The handler context and its primitive operations.                       *)
(***************************************************************************)
Msg(tag) == [tag |-> tag, n |-> 0]
MsgN(tag, n) == [tag |-> tag, n |-> n]

Ctx(cid, u, ords, n, t) ==
    [cid |-> cid, u |-> u, ords |-> ords, out |-> <<>>, whole |-> FALSE,
     n |-> n, t |-> t, thrown |-> FALSE, fail |-> 0, calls |-> 0, down |-> FALSE]

\* part_001: a failed axios.post is caught inside and never reaches the caller
sendWhatsAppMessage(c, tag) ==
    IF c.thrown THEN c ELSE [c EXCEPT !.out = Append(@, Msg(tag))]

\* user.conversationState.currentStep = s
SetStep(c, s) == IF c.thrown THEN c ELSE [c EXCEPT !.u.step = s]

\* user.conversationState.data.set(k, v)
SetData(c, k, v) == IF c.thrown THEN c ELSE [c EXCEPT !.u.data = MapSet(@, k, v)]

\* user.conversationState = { currentFlow, currentStep, data: new Map(), lastUpdated: new Date() }
SetConversationState(c, flow, step) ==
    IF c.thrown THEN c
    ELSE [c EXCEPT !.u.flow = flow, !.u.step = step, !.u.data = EmptyMap,
                   !.u.lu = c.t, !.whole = TRUE]

sendMainMenu(c) == sendWhatsAppMessage(c, "mainMenu")

\* the reset block repeated through part_001: back to the main menu
ReturnToMainMenu(c) == sendMainMenu(SetConversationState(c, "MAIN_MENU", Null))

(***************************************************************************)
(* Registration (part_001).                                                *)
(***************************************************************************)
registrationSteps ==
    <<"firstName", "surname", "dateOfBirth", "gender", "medicalAidProvider",
      "medicalAidNumber", "scheme", "dependentNumber">>

genderOptions == <<"MALE", "FEMALE">>
medicalAidOptions == <<"BOMAID", "PULA", "BPOMAS", "BOTSOGO">>

sendRegistrationPrompt(c) ==
    [c EXCEPT !.out = Append(@, MsgN("regPrompt", StepNumber(c.u.step)))]

\* case "dateOfBirth": p the parts of the text, raw the text
dateOfBirthCheck(p, raw, t) ==
    LET date == JsDate(p.y, p.mo, p.d)
    IN  IF p.form \notin {"slash", "digits8"}
        THEN [ok |-> FALSE, value |-> raw]
        ELSE [ok |-> DateBefore(date, t), value |-> date]

\* the switch on step.field: [ok, value]
validateRegistrationField(field, m, t) ==
    CASE field = "dateOfBirth" -> dateOfBirthCheck(DateParts(m), m, t)
      [] field = "gender" ->
            LET i == parseInt(m) - 1
            IN  IF i >= 0 /\ i < Len(genderOptions)
                THEN [ok |-> TRUE, value |-> genderOptions[i + 1]]
                ELSE [ok |-> FALSE, value |-> m]
      [] field = "medicalAidProvider" ->
            LET i == parseInt(m) - 1
            IN  IF i >= 0 /\ i < Len(medicalAidOptions)
                THEN [ok |-> TRUE, value |-> medicalAidOptions[i + 1]]
                ELSE [ok |-> FALSE, value |-> m]
      [] field = "dependentNumber" ->
            [ok |-> TRUE, value |-> IF m = "N/A" THEN Null ELSE m]
      [] OTHER -> [ok |-> TRUE, value |-> m]

\* the terminal action without its for loop: nothing is copied from data
completeRegistrationNoCopy(c) ==
    SetConversationState([c EXCEPT !.u.reg = TRUE], "MAIN_MENU", Null)

\* for (const [field, value] of data) user[field] = value; isRegistrationComplete = true
completeRegistration(c) ==
    LET d == c.u.data
        c1 == [c EXCEPT !.u.profile = [k \in (DOMAIN @) \cup (DOMAIN d) |->
                                          IF k \in DOMAIN d THEN d[k] ELSE @[k]],
                        !.u.reg = TRUE]
    IN  SetConversationState(c1, "MAIN_MENU", Null)

sendCompletionMessage(c) == sendMainMenu(sendWhatsAppMessage(c, "registrationComplete"))

\* what follows the switch: the rejection, or data.set and the next step
answerRegistrationStep(c, field, v) ==
    LET cur == StepNumber(c.u.step) IN
    IF ~v.ok
    THEN sendRegistrationPrompt(sendWhatsAppMessage(c, "invalidInput"))
    ELSE LET c1 == SetData(c, field, v.value)
         IN  IF cur < LastRegStep
             THEN sendRegistrationPrompt(SetStep(c1, StepString(cur + 1)))
             ELSE sendCompletionMessage(completeRegistration(c1))

handleRegistration(c, m) ==
    LET cur == StepNumber(c.u.step) IN
    IF m = BACK /\ cur > 0
    THEN LET c1 == SetStep(c, StepString(cur - 1))
             c2 == [c1 EXCEPT !.u.data = MapDelete(@, registrationSteps[(cur - 1) + 1])]
         IN  sendRegistrationPrompt(c2)
    ELSE IF c.u.step = Null
    THEN \* registrationSteps[null] is undefined: step.field throws, the catch answers
         sendWhatsAppMessage(c, "registrationError")
    ELSE LET field == registrationSteps[cur + 1]
         IN  answerRegistrationStep(c, field, validateRegistrationField(field, m, c.t))

(***************************************************************************)
(* The Order collection.                                                   *)
(***************************************************************************)
\* generateOrderNumber: `ORD-${randomPart} - ${datePart}`; the date part is the
\* calendar day of the clock, the random part is the draw n
generateOrderNumber(n, t) == [random |-> n, stamp |-> EpochDay + (t \div TicksPerDay)]

\* the schema without the unique index on orderNumber
OrderSaveOkNoIndex(ords, o) == o.deliveryMethod \in {"DELIVERY", "PICKUP"}

\* orderSchema: orderNumber is unique, deliveryMethod is required and one of the enum
OrderSaveOk(ords, o) ==
    /\ \A i \in 1..Len(ords) : ords[i].orderNumber # o.orderNumber
    /\ o.deliveryMethod \in {"DELIVERY", "PICKUP"}

\* a find whose filter has no user field: the Orders of every contact
RECURSIVE NewestFirstAnyUser(_, _, _)
NewestFirstAnyUser(ords, cid, types) ==
    IF ords = <<>> THEN <<>>
    ELSE LET o == ords[Len(ords)]
             rest == NewestFirstAnyUser(SubSeq(ords, 1, Len(ords) - 1), cid, types)
         IN  IF o.orderType \in types THEN <<o>> \o rest ELSE rest

\* Order.find(filter).sort({ createdAt: -1 }).limit(k), as a sequence
RECURSIVE NewestFirst(_, _, _)
NewestFirst(ords, cid, types) ==
    IF ords = <<>> THEN <<>>
    ELSE LET o == ords[Len(ords)]
             rest == NewestFirst(SubSeq(ords, 1, Len(ords) - 1), cid, types)
         IN  IF o.user = cid /\ o.orderType \in types THEN <<o>> \o rest ELSE rest

Limit(seq, k) == IF Len(seq) > k THEN SubSeq(seq, 1, k) ELSE seq

OrderTypes == {"PRESCRIPTION_REFILL", "NEW_PRESCRIPTION", "OVER_THE_COUNTER"}

(***************************************************************************)
(* Prompts of the ordering flow (part_001).                                *)
(***************************************************************************)
Send2(c, a, b) == sendWhatsAppMessage(sendWhatsAppMessage(c, a), b)

sendMedicationTypeOptions(c) == Send2(c, "medicationType", "medicationTypeHelp")
sendPrescriptionOptions(c) == Send2(c, "prescriptionOptions", "prescriptionOptionsHelp")
sendNewPrescriptionOptions(c) == Send2(c, "prescriptionFor", "prescriptionForHelp")
sendDeliveryOptions(c) == Send2(c, "deliveryMethod", "deliveryMethodHelp")
sendDeliveryAddressOptions(c) == Send2(c, "deliveryAddressType", "deliveryAddressTypeHelp")
sendMoreOptions(c) == Send2(c, "moreOptions", "moreOptionsHelp")

sendRefillOptions(c) ==
    LET prescriptionOrders ==
            Limit(NewestFirst(c.ords, c.cid, {"PRESCRIPTION_REFILL", "NEW_PRESCRIPTION"}), 10)
    IN  IF Len(prescriptionOrders) = 0
        THEN sendWhatsAppMessage(c, "noRefills")
        ELSE SetData(SetStep(sendWhatsAppMessage(c, "refillList"), "SELECT_REFILL"),
                     "prescriptionOrders", prescriptionOrders)

(***************************************************************************)
(* finishOrder (part_001).                                                 *)
(***************************************************************************)
BuildOrder(c) ==
    LET d == c.u.data IN
    [ user |-> c.cid,
      orderNumber |-> generateOrderNumber(c.n, c.t),
      orderType |-> IF Truthy(Get(d, "orderType")) THEN d["orderType"]
                    ELSE "OVER_THE_COUNTER",
      medications |-> IF Truthy(Get(d, "medications")) THEN d["medications"]
                      ELSE "To be specified",
      deliveryMethod |-> Get(d, "deliveryMethod"),
      addressType |-> IF Truthy(Get(d, "workAddress")) THEN "WORK" ELSE "HOME",
      address |-> IF Truthy(Get(d, "workAddress")) THEN d["workAddress"]
                  ELSE Get(d, "homeAddress"),
      prescriptionText |-> IF Truthy(Get(d, "prescriptionText")) THEN d["prescriptionText"]
                           ELSE Undefined,
      status |-> "PENDING",
      createdAt |-> c.t ]

finishOrder(c) ==
    LET order == BuildOrder(c) IN
    IF OrderSaveOk(c.ords, order)
    THEN LET c1 == [c EXCEPT !.ords = Append(@, order),
                             !.out = Append(@, MsgN("orderConfirmation", order.orderNumber.random))]
         IN  ReturnToMainMenu(c1)
    ELSE ReturnToMainMenu(sendWhatsAppMessage(c, "orderError"))

(***************************************************************************)
(* The ordering flow (part_001).                                           *)
(***************************************************************************)
handlePrescriptionOptions(c, m) ==
    CASE m = "Prescription Refill" ->
            sendRefillOptions(SetData(SetStep(c, "SELECT_REFILL"),
                                      "orderType", "PRESCRIPTION_REFILL"))
      [] m = "New Prescription" ->
            sendWhatsAppMessage(SetData(SetStep(c, "UPLOAD_PRESCRIPTION"),
                                        "orderType", "NEW_PRESCRIPTION"),
                                "uploadPrescription")
      [] m = ABORT -> ReturnToMainMenu(c)
      [] m = BACK -> sendMedicationTypeOptions(SetStep(c, "MEDICATION_TYPE"))
      [] OTHER -> sendPrescriptionOptions(sendWhatsAppMessage(c, "invalidOption"))

\* [thrown |-> TRUE]: prescriptionOrders.length on undefined throws a TypeError
handleRefillSelection(c, m) ==
    IF m = BACK
    THEN sendPrescriptionOptions(SetStep(c, "PRESCRIPTION_OPTIONS"))
    ELSE LET prescriptionOrders == Get(c.u.data, "prescriptionOrders")
             selectedIndex == parseInt(m) - 1
         IN  IF parseInt(m) = NaN \/ selectedIndex < 0
             THEN sendWhatsAppMessage(c, "invalidSelection")
             ELSE IF "prescriptionOrders" \notin DOMAIN c.u.data
             THEN [c EXCEPT !.thrown = TRUE]
             ELSE IF selectedIndex >= Len(prescriptionOrders)
             THEN sendWhatsAppMessage(c, "invalidSelection")
             ELSE sendDeliveryOptions(
                      SetStep(SetData(c, "selectedRefillOrder",
                                      prescriptionOrders[selectedIndex + 1]),
                              "DELIVERY_METHOD"))

handleDeliveryMethod(c, m) ==
    CASE m = "Delivery" ->
            sendDeliveryAddressOptions(
                SetData(SetStep(c, "DELIVERY_ADDRESS_TYPE"), "deliveryMethod", "DELIVERY"))
      [] m = "Pickup" ->
            finishOrder(sendWhatsAppMessage(SetData(c, "deliveryMethod", "PICKUP"),
                                            "pickupAddress"))
      [] m = ABORT -> ReturnToMainMenu(c)
      [] m = BACK ->
            LET previousStep == IF Get(c.u.data, "orderType") = "OVER_THE_COUNTER"
                                THEN "OTC_MEDICATION_LIST" ELSE "NEW_PRESCRIPTION_FOR"
                c1 == SetStep(c, previousStep)
            IN  IF previousStep = "OTC_MEDICATION_LIST"
                THEN sendWhatsAppMessage(c1, "otcMedicationList")
                ELSE sendNewPrescriptionOptions(c1)
      [] OTHER -> sendDeliveryOptions(sendWhatsAppMessage(c, "invalidOption"))

handleDeliveryAddressType(c, m) ==
    CASE m = "Work" ->
            sendWhatsAppMessage(SetStep(c, "ENTER_WORK_ADDRESS"), "enterWorkAddress")
      [] m = "Home" ->
            sendWhatsAppMessage(SetStep(c, "ENTER_HOME_ADDRESS"), "enterHomeAddress")
      [] m = BACK -> sendDeliveryOptions(SetStep(c, "DELIVERY_METHOD"))
      [] OTHER -> sendDeliveryAddressOptions(sendWhatsAppMessage(c, "invalidOption"))

\* the step list of the generic "00" branch at the top of handlePlaceOrder
backSteps ==
    <<"MEDICATION_TYPE", "PRESCRIPTION_OPTIONS", "UPLOAD_PRESCRIPTION",
      "NEW_PRESCRIPTION_FOR", "OTC_MEDICATION_LIST", "DELIVERY_METHOD",
      "DELIVERY_ADDRESS_TYPE", "ENTER_WORK_ADDRESS", "ENTER_HOME_ADDRESS">>

\* steps.indexOf(step): 0-based, -1 when absent
IndexOf(seq, x) ==
    IF \E i \in 1..Len(seq) : seq[i] = x
    THEN (CHOOSE i \in 1..Len(seq) : seq[i] = x) - 1
    ELSE 0 - 1

\* the back target of the generic branch, for a step whose index is > 0
previousStepOf(step, data) ==
    IF step = "OTC_MEDICATION_LIST" THEN "MEDICATION_TYPE"
    ELSE IF step = "DELIVERY_METHOD" /\ Get(data, "orderType") = "OVER_THE_COUNTER"
    THEN "OTC_MEDICATION_LIST"
    ELSE backSteps[(IndexOf(backSteps, step) - 1) + 1]

\* the switch on currentStep in the lower half of handlePlaceOrder
placeOrderSwitch(c, m) ==
    LET step == c.u.step IN
    CASE step = "MEDICATION_TYPE" ->
            IF m = BACK THEN ReturnToMainMenu(c)
            ELSE IF m = "Prescription"
            THEN sendPrescriptionOptions(SetStep(c, "PRESCRIPTION_OPTIONS"))
            ELSE IF m = "OTC"
            THEN sendWhatsAppMessage(
                     SetStep(SetData(c, "orderType", "OVER_THE_COUNTER"), "OTC_MEDICATION_LIST"),
                     "otcMedicationList")
            ELSE sendMedicationTypeOptions(sendWhatsAppMessage(c, "invalidOption"))
      [] step = "PRESCRIPTION_OPTIONS" -> handlePrescriptionOptions(c, m)
      [] step = "UPLOAD_PRESCRIPTION" ->
            \* message is the text body: message.type is never "image"
            IF m = BACK THEN sendPrescriptionOptions(SetStep(c, "PRESCRIPTION_OPTIONS"))
            ELSE sendNewPrescriptionOptions(
                     sendWhatsAppMessage(
                         SetStep(SetData(c, "prescriptionText", m), "NEW_PRESCRIPTION_FOR"),
                         "prescriptionTextReceived"))
      [] step = "OTC_MEDICATION_LIST" ->
            IF m = BACK THEN sendMedicationTypeOptions(SetStep(c, "MEDICATION_TYPE"))
            ELSE sendDeliveryOptions(SetStep(SetData(c, "medications", m), "DELIVERY_METHOD"))
      [] step = "DELIVERY_METHOD" -> handleDeliveryMethod(c, m)
      [] step = "DELIVERY_ADDRESS_TYPE" -> handleDeliveryAddressType(c, m)
      [] step = "ENTER_WORK_ADDRESS" ->
            IF m = BACK
            THEN sendDeliveryAddressOptions(SetStep(c, "DELIVERY_ADDRESS_TYPE"))
            ELSE finishOrder(SetData(c, "workAddress", m))
      [] step = "ENTER_HOME_ADDRESS" ->
            IF m = BACK
            THEN sendDeliveryAddressOptions(SetStep(c, "DELIVERY_ADDRESS_TYPE"))
            ELSE finishOrder(SetData(c, "homeAddress", m))
      [] step = "NEW_PRESCRIPTION_FOR" ->
            IF m = BACK
            THEN sendWhatsAppMessage(SetStep(c, "UPLOAD_PRESCRIPTION"), "uploadPrescription")
            ELSE IF m \in {"Principal Member", "Dependant"}
            THEN sendDeliveryOptions(SetStep(SetData(c, "prescriptionFor", m), "DELIVERY_METHOD"))
            ELSE sendNewPrescriptionOptions(sendWhatsAppMessage(c, "invalidOption"))
      [] OTHER -> ReturnToMainMenu(sendWhatsAppMessage(c, "invalidStep"))

RECURSIVE handlePlaceOrder(_, _)
handlePlaceOrder(c, m) ==
    IF m = BACK /\ IndexOf(backSteps, c.u.step) > 0
    THEN LET previousStep == previousStepOf(c.u.step, c.u.data)
             c1 == SetStep(c, previousStep)
         IN  CASE previousStep = "MEDICATION_TYPE" -> sendMedicationTypeOptions(c1)
               [] previousStep = "PRESCRIPTION_OPTIONS" -> sendPrescriptionOptions(c1)
               [] previousStep = "UPLOAD_PRESCRIPTION" ->
                     sendWhatsAppMessage(c1, "uploadPrescription")
               [] previousStep = "NEW_PRESCRIPTION_FOR" -> sendNewPrescriptionOptions(c1)
               [] previousStep = "OTC_MEDICATION_LIST" ->
                     sendWhatsAppMessage(c1, "otcMedicationList")
               [] previousStep = "DELIVERY_METHOD" -> sendDeliveryOptions(c1)
               [] previousStep = "DELIVERY_ADDRESS_TYPE" -> sendDeliveryAddressOptions(c1)
               [] OTHER -> handlePlaceOrder(c1, "")
    ELSE IF m = ABORT
    THEN ReturnToMainMenu(c)
    ELSE placeOrderSwitch(c, m)

(***************************************************************************)
(* The other flows and the dispatcher (part_001).                          *)
(***************************************************************************)
handleViewOrderStatus(c, m) ==
    IF m = BACK THEN ReturnToMainMenu(c)
    ELSE LET found == Limit(NewestFirst(c.ords, c.cid, OrderTypes), 10)
         IN  IF Len(found) = 0
             THEN sendWhatsAppMessage(c, "noOrders")
             ELSE SetData(SetStep(sendWhatsAppMessage(c, "orderList"), "SELECT_ORDER"),
                          "orders", found)

handleOrderSelection(c, m) ==
    IF m = BACK THEN ReturnToMainMenu(c)
    ELSE LET found == Get(c.u.data, "orders")
             selectedIndex == parseInt(m) - 1
         IN  IF parseInt(m) = NaN \/ selectedIndex < 0
             THEN sendWhatsAppMessage(c, "invalidSelection")
             ELSE IF "orders" \notin DOMAIN c.u.data
             THEN [c EXCEPT !.thrown = TRUE]
             ELSE IF selectedIndex >= Len(found)
             THEN sendWhatsAppMessage(c, "invalidSelection")
             ELSE SetStep([c EXCEPT !.out = Append(@, MsgN("orderDetails",
                                            found[selectedIndex + 1].orderNumber.random))],
                          Null)

\* handleMedicationDelivery, handlePharmacyConsultation, handleDoctorConsultation,
\* handleGeneralEnquiry: the same body with another acknowledgement
handleSimpleFlow(c, m, ack) ==
    IF m = BACK THEN ReturnToMainMenu(c) ELSE sendWhatsAppMessage(c, ack)

greetings == {"hi", "hello", "hey", "good morning", "good afternoon", "good evening"}

handleMainMenu(c, m) ==
    IF m \in greetings
    THEN sendMainMenu(sendWhatsAppMessage(c, "greeting"))
    ELSE CASE m = "Place an Order" ->
                sendMedicationTypeOptions(
                    SetConversationState(c, "PLACE_ORDER", "MEDICATION_TYPE"))
           [] m = "View Order Status" ->
                handleViewOrderStatus(SetConversationState(c, "VIEW_ORDER_STATUS", Null), m)
           [] m = "More" -> sendMoreOptions(c)
           [] m = "Pharmacy Consultation" ->
                sendWhatsAppMessage(
                    SetConversationState(c, "PHARMACY_CONSULTATION", "ENTER_ISSUE"),
                    "describeIssue")
           [] m = "General Enquiry" ->
                sendWhatsAppMessage(
                    SetConversationState(c, "GENERAL_ENQUIRY", "ENTER_ENQUIRY"),
                    "enterEnquiry")
           [] OTHER -> sendMainMenu(sendWhatsAppMessage(c, "invalidOption"))

\* user.conversationState.lastUpdated < new Date(Date.now() - 30 * 60 * 1000)
isSessionTimedOut(lastUpdated, t) == lastUpdated < t - SessionTimeout

handleConversation(c, m) ==
    IF c.u.flow \in {Null, "MAIN_MENU"}
    THEN handleMainMenu(SetConversationState(c, "MAIN_MENU", Null), m)
    ELSE IF isSessionTimedOut(c.u.lu, c.t)
    THEN ReturnToMainMenu(sendWhatsAppMessage(c, "sessionTimedOut"))
    ELSE CASE c.u.flow = "REGISTRATION" -> handleRegistration(c, m)
           [] c.u.flow = "VIEW_ORDER_STATUS" ->
                IF c.u.step = "SELECT_ORDER" THEN handleOrderSelection(c, m)
                ELSE handleViewOrderStatus(c, m)
           [] c.u.flow = "PLACE_ORDER" ->
                IF c.u.step = "SELECT_REFILL" THEN handleRefillSelection(c, m)
                ELSE handlePlaceOrder(c, m)
           [] c.u.flow = "MEDICATION_DELIVERY" -> handleSimpleFlow(c, m, "deliveryAck")
           [] c.u.flow = "PHARMACY_CONSULTATION" -> handleSimpleFlow(c, m, "pharmacyAck")
           [] c.u.flow = "DOCTOR_CONSULTATION" -> handleSimpleFlow(c, m, "doctorAck")
           [] c.u.flow = "GENERAL_ENQUIRY" -> handleSimpleFlow(c, m, "enquiryAck")
           [] OTHER -> ReturnToMainMenu(sendWhatsAppMessage(c, "unknownFlow"))

\* new User({ phoneNumber, conversationState: { REGISTRATION, 0, new Map(), new Date() } })
NewUser(t) ==
    [reg |-> FALSE, profile |-> EmptyMap, flow |-> "REGISTRATION", step |-> "0",
     data |-> EmptyMap, lu |-> t]

sendWelcomeMessage(c) == sendRegistrationPrompt(sendWhatsAppMessage(c, "welcome"))

\* the catch of the webhook: what the handler saved before the throw stays, the
\* contact gets the generic error message
Caught(c0, c) ==
    IF c.thrown
    THEN [c0 EXCEPT !.out = Append(c.out, Msg("genericError"))]
    ELSE c

\* app.post("/webhook"): the event m of contact c.cid, u0 the document findOne returned
webhook(c, m) ==
    IF c.u = NoUser
    THEN sendWelcomeMessage([c EXCEPT !.u = NewUser(c.t), !.whole = TRUE])
    ELSE IF ~c.u.reg
    THEN Caught(c, handleRegistration(c, m))
    ELSE Caught(c, handleConversation(c, m))

(***************************************************************************)
(* The ChatbotManager revision (part_000).  Its sendWhatsAppMessage        *)
(* rethrows a failed axios.post; every handler saves before it sends, so   *)
(* what is in the document when the exception propagates is what is        *)
(* persisted.                                                              *)
(***************************************************************************)
CM_sendN(c, tag, k) ==
    IF c.thrown THEN c
    ELSE IF c.calls + 1 = c.fail \/ (c.down /\ c.calls + 1 > c.fail)
    THEN [c EXCEPT !.calls = @ + 1, !.thrown = TRUE]
    ELSE [c EXCEPT !.calls = @ + 1, !.out = Append(@, MsgN(tag, k))]

CM_sendWhatsAppMessage(c, tag) == CM_sendN(c, tag, 0)

CM_Send2(c, a, b) == CM_sendWhatsAppMessage(CM_sendWhatsAppMessage(c, a), b)

CM_sendMainMenu(c) == CM_sendWhatsAppMessage(c, "mainMenu")
CM_sendMoreOptions(c) == CM_Send2(c, "moreOptions", "moreOptionsHelp")
CM_sendMedicationTypeOptions(c) == CM_Send2(c, "medicationType", "medicationTypeHelp")
CM_sendPrescriptionOptions(c) == CM_Send2(c, "prescriptionOptions", "prescriptionOptionsHelp")
CM_sendNewPrescriptionOptions(c) == CM_Send2(c, "prescriptionFor", "prescriptionForHelp")
CM_sendDeliveryOptions(c) == CM_Send2(c, "deliveryMethod", "deliveryMethodHelp")
CM_sendDeliveryAddressOptions(c) ==
    CM_Send2(c, "deliveryAddressType", "deliveryAddressTypeHelp")

\* the list is text only: the orders it names are not stored in the document
CM_sendRefillOptions(c) == CM_sendWhatsAppMessage(c, "refillList")

resetConversationState(c) ==
    CM_sendMainMenu(SetConversationState(c, "MAIN_MENU", Null))

\* registrationSteps[currentStep].prompt: a TypeError when the entry is undefined
CM_sendRegistrationPrompt(c) ==
    IF c.thrown THEN c
    ELSE IF c.u.step = Null THEN [c EXCEPT !.thrown = TRUE]
    ELSE CM_sendN(c, "regPrompt", StepNumber(c.u.step))

\* sendRegistrationPrompt(user, this.registrationSteps): this.registrationSteps
\* is never assigned, so indexing it throws after the welcome text is sent
CM_sendWelcomeMessage(c) ==
    LET c1 == CM_sendWhatsAppMessage(c, "welcome")
    IN  [c1 EXCEPT !.thrown = TRUE]

CM_sendCompletionMessage(c) ==
    CM_sendMainMenu(CM_sendWhatsAppMessage(c, "registrationComplete"))

\* validateDateOfBirth on the parts p of the text
CM_dateOfBirthCheck(p, t) ==
    LET date == JsDate(p.y, p.mo, p.d)
        today == [days |-> EpochDay + (t \div TicksPerDay)]
    IN  [ok |-> /\ p.form \in {"slash", "digits7"}
                /\ DateBefore(date, t)
                /\ getFullYear(date) >= 1900
                /\ getFullYear(date) <= getFullYear(today),
         value |-> date]

validateDateOfBirth(m, t) == CM_dateOfBirthCheck(DateParts(m), t).ok

CM_validateRegistrationField(field, m, t) ==
    IF field = "dateOfBirth"
    THEN CM_dateOfBirthCheck(DateParts(m), t)
    ELSE validateRegistrationField(field, m, t)

\* what follows the switch of ChatbotManager.handleRegistration
CM_answerRegistrationStep(c, field, v) ==
    LET currentStep == StepNumber(c.u.step) IN
    IF ~v.ok
    THEN CM_sendRegistrationPrompt(CM_sendWhatsAppMessage(c, "invalidInput"))
    ELSE LET c1 == SetData(c, field, v.value)
         IN  IF currentStep < LastRegStep
             THEN CM_sendRegistrationPrompt(SetStep(c1, StepString(currentStep + 1)))
             ELSE CM_sendCompletionMessage(completeRegistration(c1))

CM_handleRegistration(c, m) ==
    LET currentStep == StepNumber(c.u.step) IN
    IF m = BACK /\ currentStep > 0
    THEN LET c1 == SetStep(c, StepString(currentStep - 1))
             c2 == [c1 EXCEPT !.u.data = MapDelete(@, registrationSteps[currentStep + 1])]
         IN  CM_sendRegistrationPrompt(c2)
    ELSE IF c.u.step = Null
    THEN \* registrationSteps[null] is undefined: step.field throws
         [c EXCEPT !.thrown = TRUE]
    ELSE LET field == registrationSteps[currentStep + 1]
         IN  CM_answerRegistrationStep(c, field, CM_validateRegistrationField(field, m, c.t))

\* `ORD-${Date.now()}-${Math.floor(Math.random() * 1000)}`: the clock reading of
\* the model and the draw n
CM_generateOrderNumber(n, t) == [random |-> n, stamp |-> t]

CM_BuildOrder(c) == [BuildOrder(c) EXCEPT !.orderNumber = CM_generateOrderNumber(c.n, c.t)]

CM_finishOrder(c) ==
    IF c.thrown THEN c
    ELSE LET order == CM_BuildOrder(c)
             c1 == IF OrderSaveOk(c.ords, order)
                   THEN CM_sendN([c EXCEPT !.ords = Append(@, order)],
                                 "orderConfirmation", order.orderNumber.random)
                   ELSE [c EXCEPT !.thrown = TRUE]
         IN  IF ~c1.thrown
             THEN resetConversationState(c1)
             ELSE resetConversationState(
                      CM_sendWhatsAppMessage([c1 EXCEPT !.thrown = FALSE], "orderError"))

\* a handler that calls finishOrder after data.set without user.save(): when the
\* exception leaves finishOrder before resetConversationState has saved, the
\* value set in memory is lost with the document
Unsaved(c, r) ==
    IF r.thrown /\ r.u.flow = c.u.flow
    THEN [r EXCEPT !.u = c.u, !.whole = c.whole]
    ELSE r

CM_SetAndFinish(c, key, val) == Unsaved(c, CM_finishOrder(SetData(c, key, val)))

CM_handleMedicationType(c, m) ==
    IF m = "Prescription"
    THEN CM_sendPrescriptionOptions(SetStep(c, "PRESCRIPTION_OPTIONS"))
    ELSE IF m = "OTC"
    THEN CM_sendWhatsAppMessage(
             SetStep(SetData(c, "orderType", "OVER_THE_COUNTER"), "OTC_MEDICATION_LIST"),
             "otcMedicationList")
    ELSE CM_sendMedicationTypeOptions(CM_sendWhatsAppMessage(c, "invalidOption"))

CM_handlePrescriptionOptions(c, m) ==
    CASE m = "Prescription Refill" ->
            CM_sendRefillOptions(SetData(SetStep(c, "SELECT_REFILL"),
                                         "orderType", "PRESCRIPTION_REFILL"))
      [] m = "New Prescription" ->
            CM_sendWhatsAppMessage(SetData(SetStep(c, "UPLOAD_PRESCRIPTION"),
                                           "orderType", "NEW_PRESCRIPTION"),
                                   "uploadPrescription")
      [] m = ABORT -> resetConversationState(c)
      [] OTHER -> CM_sendPrescriptionOptions(CM_sendWhatsAppMessage(c, "invalidOption"))

\* message is the text body, a string: message.type is never "image"
CM_handleUploadPrescription(c, m) ==
    CM_sendNewPrescriptionOptions(
        CM_sendWhatsAppMessage(
            SetStep(SetData(c, "prescriptionText", m), "NEW_PRESCRIPTION_FOR"),
            "prescriptionTextReceived"))

CM_handleOTCMedicationList(c, m) ==
    CM_sendDeliveryOptions(SetStep(SetData(c, "medications", m), "DELIVERY_METHOD"))

CM_handleDeliveryMethod(c, m) ==
    CASE m = "Delivery" ->
            CM_sendDeliveryAddressOptions(
                SetData(SetStep(c, "DELIVERY_ADDRESS_TYPE"), "deliveryMethod", "DELIVERY"))
      [] m = "Pickup" -> CM_SetAndFinish(c, "deliveryMethod", "PICKUP")
      [] m = ABORT -> resetConversationState(c)
      [] OTHER -> CM_sendDeliveryOptions(CM_sendWhatsAppMessage(c, "invalidOption"))

CM_handleDeliveryAddressType(c, m) ==
    CASE m = "Work" ->
            CM_sendWhatsAppMessage(SetStep(c, "ENTER_WORK_ADDRESS"), "enterWorkAddress")
      [] m = "Home" ->
            CM_sendWhatsAppMessage(SetStep(c, "ENTER_HOME_ADDRESS"), "enterHomeAddress")
      [] OTHER -> CM_sendDeliveryAddressOptions(CM_sendWhatsAppMessage(c, "invalidOption"))

CM_handleEnterWorkAddress(c, m) == CM_SetAndFinish(c, "workAddress", m)

CM_handleEnterHomeAddress(c, m) == CM_SetAndFinish(c, "homeAddress", m)

CM_handleNewPrescriptionFor(c, m) ==
    IF m \in {"Principal Member", "Dependant"}
    THEN CM_sendDeliveryOptions(SetStep(SetData(c, "prescriptionFor", m), "DELIVERY_METHOD"))
    ELSE CM_sendNewPrescriptionOptions(CM_sendWhatsAppMessage(c, "invalidOption"))

\* the step list of the "00" branch of ChatbotManager.handlePlaceOrder
CM_backSteps ==
    <<"MEDICATION_TYPE", "PRESCRIPTION_OPTIONS", "OTC_MEDICATION_LIST",
      "DELIVERY_METHOD", "ENTER_WORK_ADDRESS", "ENTER_HOME_ADDRESS">>

\* the switch on currentStep of ChatbotManager.handlePlaceOrder
CM_placeOrderSwitch(c, m) ==
    LET step == c.u.step IN
    CASE step = "MEDICATION_TYPE" -> CM_handleMedicationType(c, m)
      [] step = "PRESCRIPTION_OPTIONS" -> CM_handlePrescriptionOptions(c, m)
      [] step = "UPLOAD_PRESCRIPTION" -> CM_handleUploadPrescription(c, m)
      [] step = "OTC_MEDICATION_LIST" -> CM_handleOTCMedicationList(c, m)
      [] step = "DELIVERY_METHOD" -> CM_handleDeliveryMethod(c, m)
      [] step = "DELIVERY_ADDRESS_TYPE" -> CM_handleDeliveryAddressType(c, m)
      [] step = "ENTER_WORK_ADDRESS" -> CM_handleEnterWorkAddress(c, m)
      [] step = "ENTER_HOME_ADDRESS" -> CM_handleEnterHomeAddress(c, m)
      [] step = "NEW_PRESCRIPTION_FOR" -> CM_handleNewPrescriptionFor(c, m)
      [] OTHER -> resetConversationState(CM_sendWhatsAppMessage(c, "invalidStep"))

CM_handlePlaceOrder(c, m) ==
    IF c.thrown THEN c
    ELSE IF m = BACK /\ c.u.step = "MEDICATION_TYPE"
    THEN resetConversationState(c)
    ELSE IF m = BACK /\ IndexOf(CM_backSteps, c.u.step) > 0
    THEN \* this.handlePlaceOrder(user, ""): "" is not "00", so the call goes
         \* straight to the switch
         CM_placeOrderSwitch(
             SetStep(c, CM_backSteps[(IndexOf(CM_backSteps, c.u.step) - 1) + 1]), "")
    ELSE CM_placeOrderSwitch(c, m)

\* the text of an order number, as a contact types it
OrderNumberText(num) == "ORD-" \o ToString(num.stamp) \o "-" \o ToString(num.random)

\* Order.findOne({ orderNumber: message, user: user._id }) inside try / catch
CM_handleViewOrderStatus(c, m) ==
    IF c.thrown THEN c
    ELSE IF m = BACK THEN resetConversationState(c)
    ELSE LET found == \E i \in 1..Len(c.ords) :
                          /\ OrderNumberText(c.ords[i].orderNumber) = m
                          /\ c.ords[i].user = c.cid
             c1 == CM_sendWhatsAppMessage(c, IF found THEN "orderStatus" ELSE "orderNotFound")
             c2 == IF c1.thrown
                   THEN CM_sendWhatsAppMessage([c1 EXCEPT !.thrown = FALSE], "orderStatusError")
                   ELSE c1
         IN  CM_sendWhatsAppMessage(c2, "enterAnotherOrderNumber")

\* user.addresses.home = message
CM_handleMedicationDelivery(c, m) ==
    IF c.thrown THEN c
    ELSE IF m = BACK THEN resetConversationState(c)
    ELSE resetConversationState(
             CM_sendWhatsAppMessage([c EXCEPT !.u.profile = MapSet(@, "addresses.home", m)],
                                    "deliveryAck"))

\* handlePharmacyConsultation, handleDoctorConsultation, handleGeneralEnquiry
CM_handleAcknowledged(c, m, ack) ==
    IF m = BACK THEN resetConversationState(c)
    ELSE resetConversationState(CM_sendWhatsAppMessage(c, ack))

CM_handleMainMenu(c, m) ==
    IF m \in greetings
    THEN CM_sendMainMenu(CM_sendWhatsAppMessage(c, "greeting"))
    ELSE CASE m = "Place an Order" ->
                CM_sendMedicationTypeOptions(
                    SetConversationState(c, "PLACE_ORDER", "MEDICATION_TYPE"))
           [] m = "View Order Status" ->
                CM_sendWhatsAppMessage(
                    SetConversationState(c, "VIEW_ORDER_STATUS", "ENTER_ORDER_NUMBER"),
                    "enterOrderNumber")
           [] m = "More" -> CM_sendMoreOptions(c)
           [] m = "Pharmacy Consultation" ->
                CM_sendWhatsAppMessage(
                    SetConversationState(c, "PHARMACY_CONSULTATION", "ENTER_ISSUE"),
                    "describeIssue")
           [] m = "General Enquiry" ->
                CM_sendWhatsAppMessage(
                    SetConversationState(c, "GENERAL_ENQUIRY", "ENTER_ENQUIRY"),
                    "enterEnquiry")
           [] OTHER -> CM_sendMainMenu(CM_sendWhatsAppMessage(c, "invalidOption"))

\* the switch on currentFlow of handleConversationRecursively
CM_dispatch(c, m) ==
    CASE c.u.flow = "MAIN_MENU" -> CM_handleMainMenu(c, m)
      [] c.u.flow = "PLACE_ORDER" -> CM_handlePlaceOrder(c, m)
      [] c.u.flow = "VIEW_ORDER_STATUS" -> CM_handleViewOrderStatus(c, m)
      [] c.u.flow = "MEDICATION_DELIVERY" -> CM_handleMedicationDelivery(c, m)
      [] c.u.flow = "PHARMACY_CONSULTATION" -> CM_handleAcknowledged(c, m, "pharmacyAck")
      [] c.u.flow = "DOCTOR_CONSULTATION" -> CM_handleAcknowledged(c, m, "doctorAck")
      [] c.u.flow = "GENERAL_ENQUIRY" -> CM_handleAcknowledged(c, m, "enquiryAck")
      [] OTHER -> resetConversationState(c)

RECURSIVE handleConversationRecursively(_, _, _)
handleConversationRecursively(c, m, depth) ==
    IF c.thrown THEN c
    ELSE IF depth > MaxDepth
    THEN resetConversationState(CM_sendWhatsAppMessage(c, "depthGuard"))
    ELSE IF isSessionTimedOut(c.u.lu, c.t)
    THEN resetConversationState(CM_sendWhatsAppMessage(c, "sessionTimedOut"))
    ELSE LET c1 == CM_dispatch(c, m)
         IN  IF ~c1.thrown /\ c1.u.flow # "MAIN_MENU"
             THEN handleConversationRecursively(c1, m, depth + 1)
             ELSE c1

CM_getOrCreateUser(c) ==
    IF c.u = NoUser
    THEN CM_sendWelcomeMessage([c EXCEPT !.u = NewUser(c.t), !.whole = TRUE])
    ELSE c

processMessage(c, m) ==
    IF c.thrown THEN c
    ELSE IF ~c.u.reg THEN CM_handleRegistration(c, m)
    ELSE handleConversationRecursively(c, m, 0)

\* ChatbotManager.handleWebhook: the catch answers with the generic error text
handleWebhook(c, m) ==
    LET c1 == processMessage(CM_getOrCreateUser(c), m)
    IN  IF c1.thrown
        THEN CM_sendWhatsAppMessage([c1 EXCEPT !.thrown = FALSE], "genericError")
        ELSE c1

(***************************************************************************)
(* The inputs a contact is given to send, by its position.  Every step is  *)
(* offered its option tokens, a text that is no option, the back token and *)
(* the abort token; a free-text step is offered one text and the empty     *)
(* body of a non-text message.                                             *)
(***************************************************************************)
RegistrationInputs(step) ==
    CASE step = "0" -> {"Ann"}
      [] step = "1" -> {"Lee", BACK}
      [] step = "2" -> {"15/06/1990", "xyz", BACK}
      [] step = "3" -> {"1", "9", BACK}
      [] step = "4" -> {"2", "9", BACK}
      [] step = "5" -> {"A123", BACK}
      [] step = "6" -> {"Gold", BACK}
      [] step = "7" -> {"N/A", BACK}
      [] OTHER -> {"Ann", BACK}

PlaceOrderInputs(step) ==
    CASE step = "MEDICATION_TYPE" -> {"Prescription", "OTC", BACK, ABORT, "xyz"}
      [] step = "PRESCRIPTION_OPTIONS" ->
            {"Prescription Refill", "New Prescription", BACK, ABORT, "xyz"}
      [] step = "SELECT_REFILL" -> {"1", "9", BACK, ABORT, "xyz"}
      [] step = "UPLOAD_PRESCRIPTION" -> {"Amoxil", BACK, ABORT}
      [] step = "NEW_PRESCRIPTION_FOR" -> {"Principal Member", "Dependant", BACK, ABORT, "xyz"}
      [] step = "OTC_MEDICATION_LIST" -> {"Panado", BACK, ABORT}
      [] step = "DELIVERY_METHOD" -> {"Delivery", "Pickup", BACK, ABORT, "xyz"}
      [] step = "DELIVERY_ADDRESS_TYPE" -> {"Work", "Home", BACK, ABORT, "xyz"}
      [] step = "ENTER_WORK_ADDRESS" -> {"Plot 1", BACK, ABORT}
      [] step = "ENTER_HOME_ADDRESS" -> {"Plot 1", BACK, ABORT}
      [] OTHER -> {"xyz", BACK, ABORT}

MainMenuInputs ==
    {"Place an Order", "View Order Status", "More", "Pharmacy Consultation",
     "General Enquiry", "hi", "xyz"}

Inputs(u) ==
    IF u = NoUser THEN {"hi"}
    ELSE IF ~u.reg THEN RegistrationInputs(u.step)
    ELSE CASE u.flow \in {Null, "MAIN_MENU"} -> MainMenuInputs
           [] u.flow = "PLACE_ORDER" -> PlaceOrderInputs(u.step)
           [] u.flow = "VIEW_ORDER_STATUS" -> {"1", "9", "xyz", BACK}
           [] OTHER -> {"xyz", BACK}

(***************************************************************************)
(* The shorter input sets: the forward answers of the over-the-counter     *)
(* path, the abort token where the prompt offers it, and one greeting.     *)
(***************************************************************************)
StraightRegistrationInputs(step) ==
    CASE step = "0" -> {"Ann"}
      [] step = "1" -> {"Lee"}
      [] step = "2" -> {"15/06/1990"}
      [] step = "3" -> {"1"}
      [] step = "4" -> {"2"}
      [] step = "5" -> {"A123"}
      [] step = "6" -> {"Gold"}
      [] step = "7" -> {"N/A"}
      [] OTHER -> {"Ann"}

StraightInputs(u) ==
    IF u = NoUser THEN {"hi"}
    ELSE IF ~u.reg THEN StraightRegistrationInputs(u.step)
    ELSE CASE u.flow \in {Null, "MAIN_MENU"} -> {"Place an Order", "hi"}
           [] u.flow = "PLACE_ORDER" /\ u.step = "MEDICATION_TYPE" -> {"OTC"}
           [] u.flow = "PLACE_ORDER" /\ u.step = "OTC_MEDICATION_LIST" -> {"Panado"}
           [] u.flow = "PLACE_ORDER" /\ u.step = "DELIVERY_METHOD" ->
                {"Delivery", "Pickup", ABORT}
           [] u.flow = "PLACE_ORDER" /\ u.step = "DELIVERY_ADDRESS_TYPE" -> {"Home", ABORT}
           [] u.flow = "PLACE_ORDER" /\ u.step = "ENTER_HOME_ADDRESS" -> {"Plot 1"}
           [] OTHER -> {"xyz", ABORT}

\* the ChatbotManager stores whatever text reaches a free-text step, so the
\* steps are given fewer texts
CM_PlaceOrderInputs(step) ==
    CASE step = "MEDICATION_TYPE" -> {"Prescription", "OTC", BACK, "xyz"}
      [] step = "PRESCRIPTION_OPTIONS" ->
            {"New Prescription", "Prescription Refill", ABORT, "xyz"}
      [] step = "UPLOAD_PRESCRIPTION" -> {"Amoxil"}
      [] step = "NEW_PRESCRIPTION_FOR" -> {"Principal Member", "xyz"}
      [] step = "OTC_MEDICATION_LIST" -> {"Panado", BACK}
      [] step = "DELIVERY_METHOD" -> {"Delivery", "Pickup", BACK, "xyz"}
      [] step = "DELIVERY_ADDRESS_TYPE" -> {"Home", "xyz"}
      [] step = "ENTER_HOME_ADDRESS" -> {"Plot 1", BACK}
      [] OTHER -> {"Plot 1", BACK}

\* the events two handlers are given at once: the straight path to the
\* DELIVERY_METHOD step and its three answers
ConcInputs(u) ==
    IF u = NoUser THEN {"hi"}
    ELSE IF ~u.reg THEN StraightRegistrationInputs(u.step)
    ELSE CASE u.flow \in {Null, "MAIN_MENU"} -> {"Place an Order"}
           [] u.flow = "PLACE_ORDER" /\ u.step = "MEDICATION_TYPE" -> {"OTC"}
           [] u.flow = "PLACE_ORDER" /\ u.step = "OTC_MEDICATION_LIST" -> {"Panado"}
           [] u.flow = "PLACE_ORDER" /\ u.step = "DELIVERY_METHOD" ->
                {"Delivery", "Pickup", ABORT}
           [] OTHER -> {ABORT}

CM_Inputs(u) ==
    IF u = NoUser THEN {"hi"}
    ELSE IF ~u.reg THEN RegistrationInputs(u.step)
    ELSE CASE u.flow \in {Null, "MAIN_MENU"} ->
                {"Place an Order", "View Order Status", "General Enquiry", "hi", "xyz"}
           [] u.flow = "PLACE_ORDER" -> CM_PlaceOrderInputs(u.step)
           [] u.flow = "VIEW_ORDER_STATUS" -> {"ORD-0-1", "xyz", BACK}
           [] OTHER -> {"xyz", BACK}

(***************************************************************************)
(* user.save(): mongoose writes the paths the handler modified.  Replacing *)
(* conversationState writes the whole sub-document; an assignment to       *)
(* currentStep or a data.set / data.delete writes that path alone.  db is  *)
(* the persisted document, snap the document the handler loaded, r the     *)
(* context the handler ended with.                                         *)
(***************************************************************************)
Modified(snap, new, k) ==
    \/ (k \in DOMAIN snap) # (k \in DOMAIN new)
    \/ k \in DOMAIN snap /\ k \in DOMAIN new /\ snap[k] # new[k]

MergeMap(db, snap, new) ==
    LET keep == {k \in DOMAIN db : ~Modified(snap, new, k)}
        put == {k \in DOMAIN new : Modified(snap, new, k)}
    IN  [k \in keep \cup put |-> IF k \in put THEN new[k] ELSE db[k]]

Persist(db, snap, r) ==
    IF db = NoUser \/ snap = NoUser THEN r.u
    ELSE [reg |-> IF r.u.reg # snap.reg THEN r.u.reg ELSE db.reg,
          profile |-> MergeMap(db.profile, snap.profile, r.u.profile),
          flow |-> IF r.whole THEN r.u.flow ELSE db.flow,
          step |-> IF r.whole \/ r.u.step # snap.step THEN r.u.step ELSE db.step,
          data |-> IF r.whole THEN r.u.data ELSE MergeMap(db.data, snap.data, r.u.data),
          lu |-> IF r.whole THEN r.u.lu ELSE db.lu]

(***************************************************************************)
(* State machine.                                                          *)
(***************************************************************************)
NoEvent == [cid |-> "-", msg |-> "-", out |-> <<>>, conc |-> FALSE]

IdleHandler == [pc |-> "idle"]

AllIdle == \A h \in Handlers : inflight[h].pc = "idle"

\* no handler of contact cid is between its findOne and its save
NoneInFlight(cid) ==
    \A h \in Handlers : inflight[h].pc = "loaded" => inflight[h].cid # cid

InitRev(r) ==
    /\ rev = r
    /\ now = 0
    /\ users = [c \in Contacts |-> NoUser]
    /\ orders = <<>>
    /\ last = NoEvent
    /\ inflight = [h \in Handlers |-> IdleHandler]

Init == InitRev("fn")

\* One inbound event of the function-style server, handled from findOne to
\* the last save with no other handler in between.
Event(cid, m, n) ==
    LET r == webhook(Ctx(cid, users[cid], orders, n, now), m) IN
    /\ rev = "fn"
    /\ NoneInFlight(cid)
    /\ users' = [users EXCEPT ![cid] = Persist(users[cid], users[cid], r)]
    /\ orders' = r.ords
    /\ last' = [cid |-> cid, msg |-> m, out |-> r.out, conc |-> FALSE]
    /\ UNCHANGED <<rev, now, inflight>>

\* 15 minutes pass
Tick ==
    /\ now < MaxTime
    /\ now' = now + 1
    /\ UNCHANGED <<rev, users, orders, last, inflight>>

\* the filter with the comparison turned round: $gt for $lt
StaleNewer(u) == u # NoUser /\ u.lu > now - StaleAfter

\* { "conversationState.lastUpdated": { $lt: oneHourAgo } }
Stale(u) == u # NoUser /\ u.lu < now - StaleAfter

\* cleanupStaleConversationStates, started by setInterval: one updateMany, run
\* whatever the webhook handlers are doing
cleanupStaleConversationStates ==
    /\ \E c \in Contacts : Stale(users[c])
    /\ users' = [c \in Contacts |->
                    IF Stale(users[c])
                    THEN [users[c] EXCEPT !.flow = "MAIN_MENU", !.step = Null,
                                          !.data = EmptyMap, !.lu = now]
                    ELSE users[c]]
    /\ UNCHANGED <<rev, now, orders, last, inflight>>

(***************************************************************************)
(* Spec: the function-style server, one contact, every input of every      *)
(* step, no passage of time.                                               *)
(***************************************************************************)
Next ==
    \E m \in Inputs(users["c1"]), n \in 1..MaxRandom :
        Event("c1", m, n) /\ Len(orders') <= MaxOrders

Spec == Init /\ [][Next]_vars

(***************************************************************************)
(* SpecTime: the function-style server with the clock and the sweep.       *)
(***************************************************************************)
NextTime ==
    \/ \E m \in StraightInputs(users["c1"]), n \in 1..MaxRandom :
           Event("c1", m, n) /\ Len(orders') <= MaxOrders
    \/ Tick
    \/ cleanupStaleConversationStates

SpecTime == Init /\ [][NextTime]_vars

(***************************************************************************)
(* SpecCM: the ChatbotManager revision, one contact, every input of every  *)
(* step, with a send that may fail.                                        *)
(***************************************************************************)
InitCM == InitRev("cm")

CM_Event(cid, m, n, f) ==
    LET r == handleWebhook([Ctx(cid, users[cid], orders, n, now) EXCEPT !.fail = f], m) IN
    /\ rev = "cm"
    /\ AllIdle
    /\ users' = [users EXCEPT ![cid] = Persist(users[cid], users[cid], r)]
    /\ orders' = r.ords
    /\ last' = [cid |-> cid, msg |-> m, out |-> r.out, conc |-> FALSE]
    /\ UNCHANGED <<rev, now, inflight>>

NextCM ==
    \E m \in CM_Inputs(users["c1"]), n \in 1..MaxRandom, f \in 0..MaxFailAt :
        CM_Event("c1", m, n, f) /\ Len(orders') <= MaxOrders

SpecCM == InitCM /\ [][NextCM]_vars

(***************************************************************************)
(* SpecConc: the function-style server with two webhook handlers in        *)
(* flight.  Express starts a handler per request and nothing orders the    *)
(* handlers of one contact: Load is the handler's User.findOne, Finish is  *)
(* all it does from there to its last save, on the document it loaded.     *)
(* seen lists the events of the same contact that were saved since.        *)
(***************************************************************************)
Load(h, cid, m, n) ==
    /\ rev = "fn"
    /\ inflight[h].pc = "idle"
    /\ users[cid] # NoUser
    /\ \A g \in Handlers :
           inflight[g].pc = "loaded" /\ inflight[g].cid = cid
               => Len(inflight[g].seen) < MaxOverlap
    /\ inflight' = [inflight EXCEPT ![h] =
                       [pc |-> "loaded", cid |-> cid, msg |-> m, n |-> n,
                        snap |-> users[cid], ords |-> orders, seen |-> <<>>]]
    /\ UNCHANGED <<rev, now, users, orders, last>>

Finish(h) ==
    LET f == inflight[h]
        r == webhook(Ctx(f.cid, f.snap, orders, f.n, now), f.msg)
    IN  /\ f.pc = "loaded"
        /\ users' = [users EXCEPT ![f.cid] = Persist(users[f.cid], f.snap, r)]
        /\ orders' = r.ords
        /\ last' = [cid |-> f.cid, msg |-> f.msg, out |-> r.out, conc |-> f.seen # <<>>]
        /\ inflight' = [g \in Handlers |->
                           IF g = h THEN IdleHandler
                           ELSE IF inflight[g].pc = "loaded" /\ inflight[g].cid = f.cid
                           THEN [inflight[g] EXCEPT
                                    !.seen = Append(@, [msg |-> f.msg, n |-> f.n])]
                           ELSE inflight[g]]
        /\ UNCHANGED <<rev, now>>

NextConc ==
    \/ \E cid \in Contacts :
           \E m \in ConcInputs(users[cid]), n \in 1..MaxRandom :
               Event(cid, m, n) /\ Len(orders') <= MaxConcOrders
    \/ \E h \in Handlers :
           \E m \in ConcInputs(users["c1"]), n \in 1..MaxRandom : Load(h, "c1", m, n)
    \/ \E h \in Handlers : Finish(h) /\ Len(orders') <= MaxConcOrders

SpecConc == Init /\ [][NextConc]_vars

(***************************************************************************)
(* Vocabulary of the properties.                                           *)
(***************************************************************************)
\* the conversation state of a document without its timestamp
CS(u) == [flow |-> u.flow, step |-> u.step, data |-> u.data]

RootCS == [flow |-> "MAIN_MENU", step |-> Null, data |-> EmptyMap]

Tags(out) == {out[i].tag : i \in 1..Len(out)}

\* the event was answered with a rejection of its input
Rejected(out) ==
    Len(out) > 0 /\ out[1].tag \in {"invalidOption", "invalidInput", "invalidSelection"}

OrderNumbers(ords) == {ords[i].orderNumber : i \in 1..Len(ords)}

\* the persisted document after event e1 and then event e2 of contact cid,
\* one after the other, from document base and Order collection ords
SeqPair(cid, base, ords, e1, e2) ==
    LET r1 == webhook(Ctx(cid, base, ords, e1.n, now), e1.msg)
        r2 == webhook(Ctx(cid, r1.u, r1.ords, e2.n, now), e2.msg)
    IN  r2.u

(***************************************************************************)
(* C1.  Two events of one contact that are handled concurrently leave the  *)
(* persisted conversation state that handling them one after the other, in *)
(* one of the two orders, leaves: whenever a handler saves after exactly   *)
(* one other event of its contact was saved since it loaded the document,  *)
(* the saved conversation state is that of one of the two sequences.       *)
(***************************************************************************)
C1_ConcurrentEventsSerialized ==
    [][\A h \in Handlers :
          (/\ inflight[h].pc = "loaded"
           /\ inflight'[h].pc = "idle"
           /\ Len(inflight[h].seen) = 1)
          => LET f == inflight[h]
                 mine == [msg |-> f.msg, n |-> f.n]
                 other == f.seen[1]
             IN  CS(users'[f.cid]) \in
                     {CS(SeqPair(f.cid, f.snap, f.ords, mine, other)),
                      CS(SeqPair(f.cid, f.snap, f.ords, other, mine))}]_vars

(***************************************************************************)
(* C2.  An event whose input is rejected by the validation of the step     *)
(* leaves currentFlow, currentStep and data as they were before the event. *)
(* Every step of Spec and of SpecCM is one event of contact c1.            *)
(***************************************************************************)
C2_RejectionKeepsState ==
    [][Rejected(last'.out) => CS(users'["c1"]) = CS(users["c1"])]_vars

(***************************************************************************)
(* C3.  The next event of a contact that is in a flow other than the main  *)
(* menu and whose lastUpdated is older than the session timeout leaves the *)
(* contact at the main menu with step null and empty data, and creates no  *)
(* order, whatever the input.                                              *)
(***************************************************************************)
C3_StaleSessionIsReset ==
    [][\A m \in StraightInputs(users["c1"]), n \in 1..MaxRandom :
          (/\ users["c1"] # NoUser
           /\ users["c1"].flow \notin {Null, "MAIN_MENU"}
           /\ isSessionTimedOut(users["c1"].lu, now)
           /\ Event("c1", m, n))
          => CS(users'["c1"]) = RootCS /\ orders' = orders]_vars

(***************************************************************************)
(* C4.  In the ordering flow, an answer that moves the contact from step s *)
(* to another step of the flow, followed by the back token, leaves         *)
(* currentStep at s.                                                       *)
(***************************************************************************)
C4_BackReturnsToStep ==
    LET u == users["c1"] IN
    (u # NoUser /\ u.reg /\ u.flow = "PLACE_ORDER")
    => \A v \in Inputs(u) \ {BACK, ABORT} :
          LET r1 == webhook(Ctx("c1", u, orders, 1, now), v)
              r2 == webhook(Ctx("c1", r1.u, r1.ords, 1, now), BACK)
          IN  (r1.u.flow = "PLACE_ORDER" /\ r1.u.step # u.step)
              => r2.u.step = u.step

(***************************************************************************)
(* C5.  In registration and in the ordering flow, an answer that moves the *)
(* contact to another step, followed by the back token, leaves data with   *)
(* exactly the keys and values it had before the answer.                   *)
(***************************************************************************)
C5_BackRestoresData ==
    LET u == users["c1"] IN
    (u # NoUser /\ u.flow \in {"REGISTRATION", "PLACE_ORDER"})
    => \A v \in Inputs(u) \ {BACK, ABORT} :
          LET r1 == webhook(Ctx("c1", u, orders, 1, now), v)
              r2 == webhook(Ctx("c1", r1.u, r1.ords, 1, now), BACK)
          IN  (r1.u.flow = u.flow /\ r1.u.step # u.step)
              => r2.u.data = u.data

(***************************************************************************)
(* C6.  The event "Pickup" of a contact at the DELIVERY_METHOD step adds   *)
(* exactly one Order, of status PENDING, leaves the contact at the main    *)
(* menu with empty data, and sends a confirmation that carries the number  *)
(* of that Order.                                                          *)
(***************************************************************************)
C6_PickupPersistsOneOrder ==
    [][(/\ users["c1"] # NoUser
        /\ users["c1"].reg
        /\ users["c1"].flow = "PLACE_ORDER"
        /\ users["c1"].step = "DELIVERY_METHOD"
        /\ last'.msg = "Pickup")
       => /\ Len(orders') = Len(orders) + 1
          /\ orders'[Len(orders')].status = "PENDING"
          /\ CS(users'["c1"]) = RootCS
          /\ \E i \in 1..Len(last'.out) :
                 last'.out[i] = MsgN("orderConfirmation",
                                     orders'[Len(orders')].orderNumber.random)]_vars

(***************************************************************************)
(* C7.  When saving the Order fails inside finishOrder, the contact stays  *)
(* in the flow and at the step whose answer started the finalization.      *)
(***************************************************************************)
C7_FailedSaveKeepsStep ==
    []["orderError" \in Tags(last'.out)
       => /\ users'["c1"].flow = users["c1"].flow
          /\ users'["c1"].step = users["c1"].step]_vars

(***************************************************************************)
(* C8.  No two persisted Orders have the same orderNumber, also when       *)
(* finalizations overlap and draw their numbers at the same instant.       *)
(***************************************************************************)
C8_OrderNumbersUnique ==
    \A i, j \in 1..Len(orders) : i # j => orders[i].orderNumber # orders[j].orderNumber

\* two Orders numbered on the same day exist, the second saved by a handler
\* that was in flight while another event of the contact was saved
C8_Witness ==
    /\ Len(orders) = 2
    /\ orders[1].orderNumber.stamp = orders[2].orderNumber.stamp
    /\ last.conc
    /\ "orderConfirmation" \in Tags(last.out)

(***************************************************************************)
(* C9.  When the number finishOrder generated collides with a persisted    *)
(* Order, the contact receives no error message for it: the number is      *)
(* generated again and the save retried.                                   *)
(***************************************************************************)
C9_CollisionIsRetried ==
    [][\A m \in Inputs(users["c1"]), n \in 1..MaxRandom :
          (/\ generateOrderNumber(n, now) \in OrderNumbers(orders)
           /\ Event("c1", m, n)
           /\ Tags(last'.out) \cap {"orderError", "orderConfirmation"} # {})
          => "orderError" \notin Tags(last'.out)]_vars

(***************************************************************************)
(* C10.  No event makes handleConversationRecursively reach its depth      *)
(* guard: no event is answered with the text of the guard.                 *)
(***************************************************************************)
C10_DepthGuardNeverFires == "depthGuard" \notin Tags(last.out)

(***************************************************************************)
(* C11.  One event is interpreted against one step and moves the contact   *)
(* by at most one step: the back token sent at a step of the ordering flow *)
(* that has a previous step leaves the contact in the flow at that         *)
(* previous step, and nothing is applied to the step it has moved to (no   *)
(* Order is created).                                                      *)
(***************************************************************************)
C11_OneEventOneStep ==
    [][(/\ users["c1"] # NoUser
        /\ users["c1"].reg
        /\ users["c1"].flow = "PLACE_ORDER"
        /\ IndexOf(backSteps, users["c1"].step) > 0
        /\ last'.msg = BACK)
       => /\ users'["c1"].flow = "PLACE_ORDER"
          /\ users'["c1"].step = previousStepOf(users["c1"].step, users["c1"].data)
          /\ orders' = orders]_vars

(***************************************************************************)
(* SpecSweep: the function-style server with the clock, the sweep and a    *)
(* webhook handler that may be between its findOne and its save when the   *)
(* sweep runs.  The clock stands still while a handler is in flight.       *)
(***************************************************************************)
NextSweep ==
    \/ \E m \in StraightInputs(users["c1"]), n \in 1..MaxRandom :
           Event("c1", m, n) /\ Len(orders') <= MaxOrders
    \/ Tick /\ AllIdle
    \/ \E m \in StraightInputs(users["c1"]), n \in 1..MaxRandom : Load("h1", "c1", m, n)
    \/ Finish("h1") /\ Len(orders') <= MaxOrders
    \/ cleanupStaleConversationStates

SpecSweep == Init /\ [][NextSweep]_vars

(***************************************************************************)
(* C12.  The sweep never changes the conversationState of a contact while  *)
(* a handler of that contact is between its load and its save: a run of    *)
(* cleanupStaleConversationStates leaves the document of every contact     *)
(* with a handler in flight as it was.                                     *)
(***************************************************************************)
C12_SweepNotDuringHandler ==
    [][cleanupStaleConversationStates
       => \A h \in Handlers :
              inflight[h].pc = "loaded" => users'[inflight[h].cid] = users[inflight[h].cid]]_vars

(***************************************************************************)
(* SpecLive: the function-style server when inbound events stop.  Events   *)
(* arrive until the clock reads LastEventTime; from then on only the clock *)
(* and the sweep run.  setInterval keeps the sweep running and the clock   *)
(* keeps advancing: both are weakly fair.                                  *)
(***************************************************************************)
NextLive ==
    \/ \E m \in StraightInputs(users["c1"]), n \in 1..MaxRandom :
           now <= LastEventTime /\ Event("c1", m, n) /\ Len(orders') <= MaxOrders
    \/ Tick
    \/ cleanupStaleConversationStates

SpecLive ==
    Init /\ [][NextLive]_vars /\ WF_vars(Tick) /\ WF_vars(cleanupStaleConversationStates)

(***************************************************************************)
(* C13.  With the sweep running at its interval and no further inbound     *)
(* event, every contact that is in a flow other than the main menu is      *)
(* eventually at the main menu with step null and empty data.              *)
(***************************************************************************)
C13_SweepEventuallyResets ==
    \A c \in Contacts :
        (users[c] # NoUser /\ users[c].flow \notin {Null, "MAIN_MENU"})
            ~> (users[c] # NoUser /\ CS(users[c]) = RootCS)

\* a contact that never completed registration was put at the main menu: only
\* the sweep does that
C13_Witness ==
    /\ users["c1"] # NoUser
    /\ ~users["c1"].reg
    /\ CS(users["c1"]) = RootCS
    /\ users["c1"].lu > LastEventTime

(***************************************************************************)
(* C14.  The back token sent at DELIVERY_METHOD puts the contact at the    *)
(* step of the branch it took that precedes DELIVERY_METHOD                *)
(* (OTC_MEDICATION_LIST for an over-the-counter order, a step of the       *)
(* prescription branch otherwise), and data has no deliveryMethod entry    *)
(* afterwards.                                                             *)
(***************************************************************************)
C14_BackFromDeliveryMethod ==
    [][(/\ users["c1"] # NoUser
        /\ users["c1"].reg
        /\ users["c1"].flow = "PLACE_ORDER"
        /\ users["c1"].step = "DELIVERY_METHOD"
        /\ last'.msg = BACK)
       => /\ users'["c1"].flow = "PLACE_ORDER"
          /\ IF Get(users["c1"].data, "orderType") = "OVER_THE_COUNTER"
             THEN users'["c1"].step = "OTC_MEDICATION_LIST"
             ELSE users'["c1"].step \in {"PRESCRIPTION_OPTIONS", "SELECT_REFILL",
                                         "UPLOAD_PRESCRIPTION", "NEW_PRESCRIPTION_FOR"}
          /\ "deliveryMethod" \notin DOMAIN users'["c1"].data]_vars

(***************************************************************************)
(* C15.  At every step of the PLACE_ORDER flow, SELECT_REFILL included,    *)
(* the abort token "0" leaves the contact at the main menu with step null  *)
(* and empty data, and is answered with the main-menu prompt and nothing   *)
(* else: it is not validated as an answer of the step.                     *)
(***************************************************************************)
C15_AbortReturnsToRoot ==
    [][(/\ users["c1"] # NoUser
        /\ users["c1"].reg
        /\ users["c1"].flow = "PLACE_ORDER"
        /\ last'.msg = ABORT)
       => /\ CS(users'["c1"]) = RootCS
          /\ last'.out = <<Msg("mainMenu")>>]_vars

(***************************************************************************)
(* SpecCMTime: the ChatbotManager revision with the clock and the sweep.   *)
(***************************************************************************)
NextCMTime ==
    \/ \E m \in StraightInputs(users["c1"]), n \in 1..MaxRandom, f \in 0..MaxFailAt :
           CM_Event("c1", m, n, f) /\ Len(orders') <= MaxOrders
    \/ Tick
    \/ cleanupStaleConversationStates

SpecCMTime == InitCM /\ [][NextCMTime]_vars

(***************************************************************************)
(* C16.  The session-expired reset applies only to a contact in a flow     *)
(* other than the main menu: an event of a registered contact that is at   *)
(* the main menu is never answered with the session-timed-out notice,      *)
(* however old lastUpdated is.                                             *)
(***************************************************************************)
C16_NoTimeoutAtRoot ==
    [][\A m \in StraightInputs(users["c1"]), n \in 1..MaxRandom, f \in 0..MaxFailAt :
          (/\ users["c1"] # NoUser
           /\ users["c1"].reg
           /\ users["c1"].flow \in {Null, "MAIN_MENU"}
           /\ CM_Event("c1", m, n, f))
          => "sessionTimedOut" \notin Tags(last'.out)]_vars

(***************************************************************************)
(* C17.  Every processed event of a known contact sets                     *)
(* conversationState.lastUpdated to the time the event is processed,       *)
(* whatever transition it performs.                                        *)
(***************************************************************************)
C17_EventStampsLastUpdated ==
    [][\A m \in StraightInputs(users["c1"]), n \in 1..MaxRandom :
          (users["c1"] # NoUser /\ Event("c1", m, n))
          => users'["c1"].lu = now]_vars

(***************************************************************************)
(* SpecDate: the date-of-birth step on its own.  The contact has answered  *)
(* the first two registration prompts; the behaviour starts there, in      *)
(* either revision, and every event is a date-like text built from a      *)
(* day, a month and a year, with or without slashes, or a malformed one.   *)
(***************************************************************************)
DateTexts ==
    LET Pad2(k) == <<Digits[(k \div 10) + 1], Digits[(k % 10) + 1]>>
        Pad4(k) == <<Digits[(k \div 1000) + 1], Digits[((k \div 100) % 10) + 1],
                     Digits[((k \div 10) % 10) + 1], Digits[(k % 10) + 1]>>
        SlashText(d, mo, y) == Pad2(d) \o <<"/">> \o Pad2(mo) \o <<"/">> \o Pad4(y)
        DigitText(d, mo, y) == Pad2(d) \o Pad2(mo) \o Pad4(y)
        DateDays == {0, 1, 30, 31}
        DateMonths == {1, 2, 4, 13}
        DateYears == {99, 1800, 1899, 1900, 1990, 2000, 2020, 2024}
        DigitYears == {99, 1800, 1990, 2024}
    IN  {SlashText(d, mo, y) : d \in DateDays, mo \in DateMonths, y \in DateYears}
        \cup {DigitText(d, mo, y) : d \in DateDays, mo \in DateMonths, y \in DigitYears}
        \cup {SubSeq(DigitText(d, mo, y), 1, 7) :
                  d \in DateDays, mo \in DateMonths, y \in DigitYears}
        \cup {<<"x">>,
              <<"1", "/", "0", "1", "/", "1", "9", "9", "0">>,
              Pad2(15) \o <<"-">> \o Pad2(6) \o <<"-">> \o Pad4(1990),
              SlashText(15, 6, 1990) \o <<"x">>,
              <<"x">> \o SlashText(15, 6, 1990)}

\* the document of a contact that answered "hi", "Ann", "Lee"
AtDateOfBirth ==
    [NewUser(0) EXCEPT !.step = "2",
                       !.data = MapSet(MapSet(EmptyMap, "firstName", "Ann"), "surname", "Lee")]

InitDate ==
    /\ rev \in {"fn", "cm"}
    /\ now = 0
    /\ users = [c \in Contacts |-> IF c = "c1" THEN AtDateOfBirth ELSE NoUser]
    /\ orders = <<>>
    /\ last = NoEvent
    /\ inflight = [h \in Handlers |-> IdleHandler]

\* the event text of a contact at the dateOfBirth step, function-style server
DateOfBirthEvent(cid, text) ==
    LET c == Ctx(cid, users[cid], orders, 1, now)
        v == dateOfBirthCheck(ParseDate(text), text, now)
        r == Caught(c, answerRegistrationStep(c, "dateOfBirth", v))
    IN  /\ rev = "fn"
        /\ users[cid] # NoUser
        /\ ~users[cid].reg
        /\ users[cid].step = "2"
        /\ users' = [users EXCEPT ![cid] = Persist(users[cid], users[cid], r)]
        /\ orders' = r.ords
        /\ last' = [cid |-> cid, msg |-> text, out |-> r.out, conc |-> FALSE]
        /\ UNCHANGED <<rev, now, inflight>>

\* the same event in the ChatbotManager
CM_DateOfBirthEvent(cid, text) ==
    LET c == Ctx(cid, users[cid], orders, 1, now)
        v == CM_dateOfBirthCheck(ParseDate(text), now)
        c1 == CM_answerRegistrationStep(c, "dateOfBirth", v)
        r == IF c1.thrown
             THEN CM_sendWhatsAppMessage([c1 EXCEPT !.thrown = FALSE], "genericError")
             ELSE c1
    IN  /\ rev = "cm"
        /\ users[cid] # NoUser
        /\ ~users[cid].reg
        /\ users[cid].step = "2"
        /\ users' = [users EXCEPT ![cid] = Persist(users[cid], users[cid], r)]
        /\ orders' = r.ords
        /\ last' = [cid |-> cid, msg |-> text, out |-> r.out, conc |-> FALSE]
        /\ UNCHANGED <<rev, now, inflight>>

NextDate ==
    \/ \E text \in DateTexts : DateOfBirthEvent("c1", text)
    \/ \E text \in DateTexts : CM_DateOfBirthEvent("c1", text)

SpecDate == InitDate /\ [][NextDate]_vars

\* the date-of-birth text of the last event was not taken: the rejection is
\* sent, the contact is still at the step and data holds no dateOfBirth
DateRejected ==
    /\ Rejected(last.out)
    /\ users["c1"].step = "2"
    /\ "dateOfBirth" \notin DOMAIN users["c1"].data

\* C18: at the date-of-birth step a DD/MM/YYYY text whose day does not exist in
\* its month (31/02/2020, 30/02/2000, 31/04/1990, 00/01/1990, 01/13/1990) is
\* rejected: the same step is prompted again and the collected data are unchanged
C18_NonExistentDayRejected ==
    LET p == ParseDate(last.msg)
        DaysInMonth ==
            IF p.mo = 2
            THEN (IF p.y % 4 = 0 /\ (p.y % 100 # 0 \/ p.y % 400 = 0) THEN 29 ELSE 28)
            ELSE IF p.mo \in {4, 6, 9, 11} THEN 30 ELSE 31
        ExistingDay == p.mo \in 1..12 /\ p.d >= 1 /\ p.d <= DaysInMonth
    IN  (last.cid = "c1" /\ SlashForm(last.msg) /\ ~ExistingDay) => DateRejected

\* C19: the date-of-birth validator accepts a text only if it has the exact
\* form DD/MM/YYYY (a text of digits only is rejected), its date is strictly
\* before the processing time and its year is at least 1900; every other text
\* is rejected
C19_OnlyWellFormedDatesAccepted ==
    LET p == ParseDate(last.msg)
        WellFormed == /\ SlashForm(last.msg)
                      /\ DateBefore(JsDate(p.y, p.mo, p.d), now)
                      /\ p.y >= 1900
    IN  (last.cid = "c1" /\ ~WellFormed) => DateRejected

(***************************************************************************)
(* SpecOption: the function-style server with, at every step that offers   *)
(* options, one more text that begins with an option's number.             *)
(***************************************************************************)
OptionSteps ==
    {"MEDICATION_TYPE", "PRESCRIPTION_OPTIONS", "NEW_PRESCRIPTION_FOR", "DELIVERY_METHOD",
     "DELIVERY_ADDRESS_TYPE", "SELECT_REFILL"}

AtOptionStep(u) ==
    /\ u # NoUser
    /\ \/ ~u.reg /\ u.flow = "REGISTRATION" /\ u.step \in {"3", "4"}
       \/ u.reg /\ u.flow = "PLACE_ORDER" /\ u.step \in OptionSteps

OptionInputs(u) == Inputs(u) \cup (IF AtOptionStep(u) THEN {"1x"} ELSE {})

NextOption ==
    \E m \in OptionInputs(users["c1"]), n \in 1..MaxRandom :
        Event("c1", m, n) /\ Len(orders') <= MaxOrders

SpecOption == Init /\ [][NextOption]_vars

\* the texts the step of document u declares as its options: the numbers of
\* the listed options, or the titles of the buttons
OptionTokens(u) ==
    LET IndexTokens(n) == {m \in {"1", "2", "3", "4", "5", "6", "7", "9"} : parseInt(m) \in 1..n}
    IN  IF ~u.reg
        THEN (IF u.step = "3" THEN IndexTokens(Len(genderOptions))
              ELSE IndexTokens(Len(medicalAidOptions)))
        ELSE CASE u.step = "MEDICATION_TYPE" -> {"Prescription", "OTC"}
               [] u.step = "PRESCRIPTION_OPTIONS" -> {"Prescription Refill", "New Prescription"}
               [] u.step = "NEW_PRESCRIPTION_FOR" -> {"Principal Member", "Dependant"}
               [] u.step = "DELIVERY_METHOD" -> {"Delivery", "Pickup"}
               [] u.step = "DELIVERY_ADDRESS_TYPE" -> {"Work", "Home"}
               [] OTHER -> IF "prescriptionOrders" \in DOMAIN u.data
                           THEN IndexTokens(Len(u.data["prescriptionOrders"]))
                           ELSE {}

\* C20: at every step with option-based input (gender, medicalAidProvider,
\* MEDICATION_TYPE, PRESCRIPTION_OPTIONS, NEW_PRESCRIPTION_FOR, DELIVERY_METHOD,
\* DELIVERY_ADDRESS_TYPE, SELECT_REFILL) every declared option is accepted and
\* every other text is rejected: a text that merely begins with an option's
\* number, such as "1x", is answered with a rejection and changes nothing, and
\* the reserved texts "0" and "00" are not stored as an answer either
C20_OnlyDeclaredOptionsAccepted ==
    [][(AtOptionStep(users["c1"]) /\ last'.cid = "c1")
        => /\ last'.msg \in OptionTokens(users["c1"])
                => ~Rejected(last'.out)
           /\ last'.msg \notin OptionTokens(users["c1"]) \cup {BACK, ABORT}
                => Rejected(last'.out) /\ CS(users'["c1"]) = CS(users["c1"])
           /\ last'.msg \in {BACK, ABORT}
                => (DOMAIN users'["c1"].data) \subseteq (DOMAIN users["c1"].data)
                   /\ orders' = orders]_vars


(***************************************************************************)
(* SpecText: the function-style server with, at every step answered in     *)
(* free text, the empty body the webhook gives a message without text.     *)
(***************************************************************************)
\* the data key a free-text step of document u stores its answer under, or Null
FreeTextField(u) ==
    IF u = NoUser THEN Null
    ELSE IF ~u.reg
    THEN (IF u.flow = "REGISTRATION" /\ u.step \in {"0", "1", "5", "6"}
          THEN registrationSteps[StepNumber(u.step) + 1] ELSE Null)
    ELSE IF u.flow # "PLACE_ORDER" THEN Null
    ELSE CASE u.step = "OTC_MEDICATION_LIST" -> "medications"
           [] u.step = "ENTER_WORK_ADDRESS" -> "workAddress"
           [] u.step = "ENTER_HOME_ADDRESS" -> "homeAddress"
           [] OTHER -> Null

\* the forward answers of both address branches, and the empty text at the
\* free-text steps
TextInputs(u) ==
    StraightInputs(u)
    \cup (IF FreeTextField(u) # Null THEN {""} ELSE {})
    \cup (IF u # NoUser /\ u.reg /\ u.flow = "PLACE_ORDER" /\ u.step = "DELIVERY_ADDRESS_TYPE"
          THEN {"Work"} ELSE {})

NextText ==
    \E m \in TextInputs(users["c1"]), n \in 1..MaxRandom :
        Event("c1", m, n) /\ Len(orders') <= MaxOrders

SpecText == Init /\ [][NextText]_vars

\* C21: every free-text step (firstName, surname, medicalAidNumber, scheme,
\* OTC_MEDICATION_LIST, ENTER_WORK_ADDRESS, ENTER_HOME_ADDRESS) rejects the
\* empty input without advancing, and stores a non-empty input as it was sent
C21_EmptyTextRejected ==
    [][LET u == users["c1"]
           v == users'["c1"]
           f == FreeTextField(u)
       IN  (f # Null /\ last'.cid = "c1")
           => /\ last'.msg = "" => Rejected(last'.out) /\ CS(v) = CS(u) /\ orders' = orders
              /\ (last'.msg \notin {"", BACK, ABORT} /\ f \in DOMAIN v.data)
                    => v.data[f] = last'.msg
              /\ (last'.msg \notin {"", BACK, ABORT} /\ Len(orders') > Len(orders))
                    => orders'[Len(orders')].address = last'.msg]_vars


\* C22: the first event of an identity without a document creates the document
\* with flow REGISTRATION at the entry step, emits the prompt of step 1, and
\* leaves the contact at the entry step with empty data when the event is done
C22_FirstEventStartsRegistration ==
    [][(users["c1"] = NoUser /\ last'.cid = "c1")
        => /\ users'["c1"] # NoUser
           /\ ~users'["c1"].reg
           /\ CS(users'["c1"]) = [flow |-> "REGISTRATION", step |-> "0", data |-> EmptyMap]
           /\ \E i \in 1..Len(last'.out) : last'.out[i] = MsgN("regPrompt", 0)]_vars


\* C23: in every persisted state of a registered contact, a contact at the root
\* (no flow, or MAIN_MENU) has currentStep null, and a contact whose currentStep
\* is null is at the root and inside no other flow
C23_RootIffNoStep ==
    \A c \in Contacts :
        (users[c] # NoUser /\ users[c].reg)
            => (users[c].flow \in {Null, "MAIN_MENU"} <=> users[c].step = Null)


\* C24: data holds only what was collected in the current flow instance on the
\* path still in effect: an event that changes currentFlow leaves no entry
\* that data held before it, and after a back transition data has no entry
\* for the step the contact is now at again
C24_DataOnlyOfCurrentPath ==
    [][LET u == users["c1"]
           v == users'["c1"]
           KeyOfStep(w) ==
               IF w.flow = "REGISTRATION" THEN registrationSteps[StepNumber(w.step) + 1]
               ELSE CASE w.step \in {"MEDICATION_TYPE", "PRESCRIPTION_OPTIONS"} -> "orderType"
                      [] w.step = "UPLOAD_PRESCRIPTION" -> "prescriptionText"
                      [] w.step = "SELECT_REFILL" -> "selectedRefillOrder"
                      [] w.step = "OTC_MEDICATION_LIST" -> "medications"
                      [] w.step = "DELIVERY_METHOD" -> "deliveryMethod"
                      [] w.step = "ENTER_WORK_ADDRESS" -> "workAddress"
                      [] w.step = "ENTER_HOME_ADDRESS" -> "homeAddress"
                      [] OTHER -> Null
       IN  (u # NoUser /\ last'.cid = "c1")
           => /\ v.flow # u.flow => (DOMAIN v.data) \cap (DOMAIN u.data) = {}
              /\ (last'.msg = BACK /\ v.flow = u.flow /\ v.step # u.step
                      /\ v.flow \in {"REGISTRATION", "PLACE_ORDER"})
                    => KeyOfStep(v) \notin DOMAIN v.data]_vars


\* C25: while registration is in progress no input changes a profile field or
\* isRegistrationComplete; the profile is written only by the terminal action
\* after the last registration step is answered validly, which copies every
\* data entry to the profile, sets isRegistrationComplete and puts the contact
\* at the root menu with empty data
C25_ProfileWrittenOnlyAtCompletion ==
    [][LET u == users["c1"]
           v == users'["c1"]
           answer == IF last'.msg = "N/A" THEN Null ELSE last'.msg
       IN  (u # NoUser /\ last'.cid = "c1")
           => IF ~u.reg /\ v.reg
              THEN /\ u.step = StepString(LastRegStep)
                   /\ last'.msg # BACK
                   /\ ~Rejected(last'.out)
                   /\ DOMAIN v.profile = (DOMAIN u.profile) \cup (DOMAIN u.data) \cup {"dependentNumber"}
                   /\ \A k \in DOMAIN u.data : v.profile[k] = u.data[k]
                   /\ v.profile["dependentNumber"] = answer
                   /\ CS(v) = RootCS
              ELSE v.profile = u.profile /\ v.reg = u.reg]_vars

C25_Witness ==
    /\ users["c1"] # NoUser
    /\ users["c1"].reg
    /\ last.cid = "c1"
    /\ Tags(last.out) = {"registrationComplete", "mainMenu"}
    /\ DOMAIN users["c1"].profile = {registrationSteps[i] : i \in 1..Len(registrationSteps)}
    /\ users["c1"].profile["firstName"] = "Ann"


\* C26: every persisted Order has an order type and a delivery method; an
\* Order whose deliveryMethod is DELIVERY carries one non-empty address, and
\* the type recorded with it (WORK or HOME) is the address step the contact
\* answered
C26_OrderFieldsComplete ==
    [][LET u == users["c1"] IN
       \A i \in 1..Len(orders') :
           LET o == orders'[i] IN
           /\ o.orderType \in {"PRESCRIPTION_REFILL", "NEW_PRESCRIPTION", "OVER_THE_COUNTER"}
           /\ o.deliveryMethod \in {"DELIVERY", "PICKUP"}
           /\ o.deliveryMethod = "DELIVERY" => Truthy(o.address)
           /\ (i > Len(orders) /\ o.deliveryMethod = "DELIVERY")
                => /\ u # NoUser
                   /\ u.step \in {"ENTER_WORK_ADDRESS", "ENTER_HOME_ADDRESS"}
                   /\ o.addressType = (IF u.step = "ENTER_WORK_ADDRESS" THEN "WORK" ELSE "HOME")]_vars


(***************************************************************************)
(* SpecSend: the outbound sends of the function-style server, one          *)
(* axios.post at a time, with a gateway that may fail any of them.         *)
(* sendWhatsAppMessage catches a failed post and calls itself with the     *)
(* generic error text, and that call does the same.  The behaviour covers  *)
(* the registration, whose handlers all save before they send: Receive is  *)
(* the handler up to its save, queue the texts it goes on to send.         *)
(***************************************************************************)
Receive(h, cid, m, n) ==
    LET r == webhook(Ctx(cid, users[cid], orders, n, now), m) IN
    /\ rev = "fn"
    /\ AllIdle
    /\ IF users[cid] = NoUser THEN TRUE ELSE ~users[cid].reg
    /\ users' = [users EXCEPT ![cid] = Persist(users[cid], users[cid], r)]
    /\ orders' = r.ords
    /\ inflight' = [inflight EXCEPT ![h] =
                       [pc |-> "sending", cid |-> cid, msg |-> m, queue |-> r.out,
                        sent |-> <<>>, failed |-> 0]]
    /\ UNCHANGED <<rev, now, last>>

\* axios.post returns: the text of the call is delivered, which after a failure
\* is the generic error text, and every pending call of sendWhatsAppMessage returns
PostOk(h) ==
    LET f == inflight[h] IN
    /\ f.pc = "sending"
    /\ f.queue # <<>>
    /\ inflight' = [inflight EXCEPT ![h] =
                       [f EXCEPT !.queue = Tail(@),
                                 !.sent = Append(@, IF f.failed = 0 THEN Head(f.queue)
                                                    ELSE Msg("genericError")),
                                 !.failed = 0]]
    /\ UNCHANGED <<rev, now, users, orders, last>>

\* axios.post throws: the catch calls sendWhatsAppMessage again
PostFail(h) ==
    LET f == inflight[h] IN
    /\ f.pc = "sending"
    /\ f.queue # <<>>
    /\ f.failed < MaxPosts
    /\ inflight' = [inflight EXCEPT ![h] = [f EXCEPT !.failed = @ + 1]]
    /\ UNCHANGED <<rev, now, users, orders, last>>

\* the handler has sent its last text: res.sendStatus(200)
Respond(h) ==
    LET f == inflight[h] IN
    /\ f.pc = "sending"
    /\ f.queue = <<>>
    /\ last' = [cid |-> f.cid, msg |-> f.msg, out |-> f.sent, conc |-> FALSE]
    /\ inflight' = [inflight EXCEPT ![h] = IdleHandler]
    /\ UNCHANGED <<rev, now, users, orders>>

NextSend ==
    \/ \E m \in Inputs(users["c1"]), n \in 1..MaxRandom : Receive("h1", "c1", m, n)
    \/ PostOk("h1")
    \/ PostFail("h1")
    \/ Respond("h1")

SpecSend == Init /\ [][NextSend]_vars

\* C27: after an outbound send has failed, at most one further attempt (the
\* fallback) is made for it: no text of an event sees more than two posts fail,
\* so the processing of the event ends even if the gateway fails every send
C27_OneFallbackAttempt ==
    \A h \in Handlers : inflight[h].pc = "sending" => inflight[h].failed <= 2



(***************************************************************************)
(* SpecDown: the ChatbotManager revision with a gateway that may fail one  *)
(* axios.post of an event or be down for the whole event: then every       *)
(* axios.post of the event fails, the ones of the catch clauses included,  *)
(* and the exception leaves handleWebhook.                                 *)
(***************************************************************************)
CM_EventDown(cid, m, n, f, d) ==
    LET r == handleWebhook([Ctx(cid, users[cid], orders, n, now)
                               EXCEPT !.fail = f, !.down = d], m) IN
    /\ rev = "cm"
    /\ AllIdle
    /\ users' = [users EXCEPT ![cid] = Persist(users[cid], users[cid], r)]
    /\ orders' = r.ords
    /\ last' = [cid |-> cid, msg |-> m, out |-> r.out, conc |-> FALSE]
    /\ UNCHANGED <<rev, now, inflight>>

NextDown ==
    \E m \in CM_Inputs(users["c1"]), n \in 1..MaxRandom, f \in 0..MaxFailAt, d \in BOOLEAN :
        /\ d => f > 0
        /\ CM_EventDown("c1", m, n, f, d)
        /\ Len(orders') <= MaxOrders

SpecDown == InitCM /\ [][NextDown]_vars

\* C28: a failed outbound send never keeps the event's state transition from
\* completing: whenever an event of the ChatbotManager has persisted an Order,
\* the contact is at the root menu with empty data after the event, whichever
\* sends of the event failed.
C28_SendFailureKeepsTransition ==
    [][Len(orders') > Len(orders) => CS(users'[last'.cid]) = RootCS]_vars


\* C29: the back transition validates nothing and writes nothing into data:
\* after an event whose input is the back token "00", at any step, data holds no
\* key and no value that it did not hold before the event, and the event is not
\* answered with an invalid-input message.
C29_BackWritesNothing ==
    [][LET u == users["c1"]
           v == users'["c1"]
       IN  (last'.cid = "c1" /\ last'.msg = BACK /\ u # NoUser)
           => /\ \A k \in DOMAIN v.data : k \in DOMAIN u.data /\ v.data[k] = u.data[k]
              /\ ~Rejected(last'.out)]_vars


\* C30: every rejected input is answered, within the same event, by an
\* invalid-input message followed by the prompt of the step the contact is
\* still at: the invalid-input message is never the whole answer, the text after
\* it is a prompt, the one of the contact's step during registration, and the
\* contact has not left its step.
C30_RejectionRePrompts ==
    [][LET u == users["c1"]
           v == users'["c1"]
           out == last'.out
       IN  (last'.cid = "c1" /\ u # NoUser /\ Rejected(out))
           => /\ Len(out) >= 2
              /\ out[2].tag \notin {"invalidOption", "invalidInput", "invalidSelection",
                                    "genericError", "depthGuard", "sessionTimedOut"}
              /\ v.flow = u.flow /\ v.step = u.step
              /\ u.flow = "REGISTRATION" => out[2] = MsgN("regPrompt", StepNumber(u.step))]_vars


\* C31: the conversation never becomes unresponsive: after any sequence of
\* inbound events and sweeps, the currentStep of a contact who has not completed
\* the registration is a step of the registration (an index of
\* registrationSteps), so that a valid answer still advances the registration.
C31_RegistrationStepValid ==
    \A c \in Contacts :
        (users[c] # NoUser /\ ~users[c].reg)
            => users[c].step \in {StepString(i) : i \in 0..LastRegStep}


\* C32: choosing "New Prescription" at PRESCRIPTION_OPTIONS sets orderType to
\* NEW_PRESCRIPTION and moves the contact to UPLOAD_PRESCRIPTION inside the
\* PLACE_ORDER flow; the only prompt of the event is the upload prompt (the
\* generic error text stands for it when its send failed); the contact is not
\* returned to the main menu and data keeps what it held.
C32_NewPrescriptionGoesToUpload ==
    [][LET u == users["c1"]
           v == users'["c1"]
       IN  (/\ last'.cid = "c1" /\ last'.msg = "New Prescription"
            /\ u # NoUser /\ u.flow = "PLACE_ORDER" /\ u.step = "PRESCRIPTION_OPTIONS")
           => /\ v.flow = "PLACE_ORDER" /\ v.step = "UPLOAD_PRESCRIPTION"
              /\ v.data = MapSet(u.data, "orderType", "NEW_PRESCRIPTION")
              /\ Tags(last'.out) \in {{"uploadPrescription"}, {"genericError"}}
              /\ Len(last'.out) = 1]_vars


\* C33: every step that a transition of the ordering flow can set as currentStep
\* has a handler: no event is answered with the text of the default branch of
\* handlePlaceOrder ("Invalid step in order process. Returning to main menu.").
C33_NoInvalidStep == "invalidStep" \notin Tags(last.out)


\* C34: for every step of the ordering flow that the generic step-list code at
\* the top of handlePlaceOrder handles (index > 0 in its list), the back target
\* it computes equals the back target of the step's own "00" branch in the
\* switch below it, for every orderType the contact's data can hold.
C34_BackTargetsAgree ==
    \A c \in Contacts :
        LET u == users[c] IN
        (/\ u # NoUser /\ u.reg /\ u.flow = "PLACE_ORDER"
         /\ IndexOf(backSteps, u.step) > 0)
        => previousStepOf(u.step, u.data)
               = placeOrderSwitch(Ctx(c, u, orders, 1, now), BACK).u.step


\* C35: processing the back token "00" never persists an Order: at every step
\* of the ordering flow, ENTER_WORK_ADDRESS and ENTER_HOME_ADDRESS included, the
\* persisted Orders are the same before and after a back event.
C35_BackPersistsNoOrder ==
    [][(last'.cid = "c1" /\ last'.msg = BACK) => orders' = orders]_vars


\* C36: one traversal of the ordering flow produces at most one persisted Order,
\* also when the finalizing event is delivered twice and the two deliveries are
\* processed concurrently: a handler that loaded the contact at DELIVERY_METHOD
\* with "Pickup", and finishes after another delivery of "Pickup" for the same
\* contact was saved, persists no further Order.
C36_RedeliveryOneOrder ==
    [][\A h \in Handlers :
          LET f == inflight[h] IN
          (/\ f.pc = "loaded" /\ inflight'[h].pc = "idle"
           /\ f.msg = "Pickup"
           /\ f.snap.flow = "PLACE_ORDER" /\ f.snap.step = "DELIVERY_METHOD"
           /\ \E i \in 1..Len(f.seen) : f.seen[i].msg = "Pickup")
          => orders' = orders]_vars


(***************************************************************************)
(* SpecPace: the function-style server with a contact who never pauses:    *)
(* every event is processed at most one tick (15 minutes) after the        *)
(* previous one.                                                           *)
(***************************************************************************)
PacedEvent(cid, m, n, d) ==
    LET r == webhook(Ctx(cid, users[cid], orders, n, now + d), m) IN
    /\ rev = "fn"
    /\ AllIdle
    /\ now + d <= MaxTime
    /\ now' = now + d
    /\ users' = [users EXCEPT ![cid] = Persist(users[cid], users[cid], r)]
    /\ orders' = r.ords
    /\ last' = [cid |-> cid, msg |-> m, out |-> r.out, conc |-> FALSE]
    /\ UNCHANGED <<rev, inflight>>

NextPace ==
    \E m \in StraightInputs(users["c1"]), n \in 1..MaxRandom, d \in 0..(SessionTimeout - 1) :
        PacedEvent("c1", m, n, d) /\ Len(orders') <= MaxOrders

SpecPace == Init /\ [][NextPace]_vars

\* C37: a contact who is in a flow and whose consecutive inbound messages are
\* each less than 30 minutes apart is never given the session-timed-out reset,
\* however long ago the flow was entered.
C37_NoTimeoutWhileActive == "sessionTimedOut" \notin Tags(last.out)


\* C38: a persisted Order contains only what was collected on the branch the
\* contact finally took: an Order whose orderType is NEW_PRESCRIPTION or
\* PRESCRIPTION_REFILL carries no medication text of the OTC branch (its
\* medications entry is the placeholder), and an OVER_THE_COUNTER Order carries
\* no prescription text.
C38_OrderOnlyOfFinalBranch ==
    \A i \in 1..Len(orders) :
        /\ orders[i].orderType \in {"NEW_PRESCRIPTION", "PRESCRIPTION_REFILL"}
               => orders[i].medications = "To be specified"
        /\ orders[i].orderType = "OVER_THE_COUNTER"
               => orders[i].prescriptionText = Undefined


(***************************************************************************)
(* SpecShown: the function-style server with two contacts who register,    *)
(* order on the prescription path and look at their orders: the order      *)
(* list of View Order Status, the details of a listed order and the refill *)
(* list.  The Order collection holds the Orders of both.                   *)
(***************************************************************************)
ShownInputs(u) ==
    IF u = NoUser THEN {"hi"}
    ELSE IF ~u.reg THEN StraightRegistrationInputs(u.step)
    ELSE CASE u.flow \in {Null, "MAIN_MENU"} -> {"Place an Order", "View Order Status"}
           [] u.flow = "VIEW_ORDER_STATUS" -> {"1", "2", BACK}
           [] u.flow = "PLACE_ORDER" /\ u.step = "MEDICATION_TYPE" -> {"Prescription"}
           [] u.flow = "PLACE_ORDER" /\ u.step = "PRESCRIPTION_OPTIONS" ->
                {"New Prescription", "Prescription Refill"}
           [] u.flow = "PLACE_ORDER" /\ u.step = "SELECT_REFILL" -> {"1", "2", BACK}
           [] u.flow = "PLACE_ORDER" /\ u.step = "UPLOAD_PRESCRIPTION" -> {"Amoxil"}
           [] u.flow = "PLACE_ORDER" /\ u.step = "NEW_PRESCRIPTION_FOR" -> {"Principal Member"}
           [] u.flow = "PLACE_ORDER" /\ u.step = "DELIVERY_METHOD" -> {"Pickup"}
           [] OTHER -> {ABORT}

NextShown ==
    \E cid \in Contacts :
        \E m \in ShownInputs(users[cid]), n \in 1..MaxRandom :
            Event(cid, m, n) /\ Len(orders') <= MaxConcOrders

SpecShown == Init /\ [][NextShown]_vars

=============================================================================
